---- MODULE Spec2Model ----
(***************************************************************************)
(* wazo-auth: the ACL matcher of a token (wazo_auth/token.py), the lazy    *)
(* ACL template renderer (wazo_auth/helpers.py) and the expired token      *)
(* remover (wazo_auth/token.py) over the token table.                      *)
(*                                                                         *)
(* A Python string is a sequence of one-character strings.  The alphabet   *)
(* of the ACLs holds no backslash, so every unit of re.escape's output is  *)
(* either a character or a backslash followed by a character, and a        *)
(* regular expression is a sequence of such units.                         *)
(***************************************************************************)
EXTENDS Integers, Sequences, FiniteSets, TLC

VARIABLES
    \* Token (wazo_auth/token.py)
    acls,           \* Token.acls
    auth_id,        \* Token.auth_id
    required_acl,   \* the argument of the matches_required_acl call
    allowed,        \* what that call returned
    called,         \* whether matches_required_acl was called
    \* LazyTemplateRenderer (wazo_auth/helpers.py)
    acl_templates,  \* self._acl_templates
    data,           \* self._data
    initialized,    \* self._initialized
    fetches,        \* the number of calls of self._get_data_fn so far
    renders,        \* the number of calls of render() so far
    rendered,       \* what the last render() returned
    raised,         \* whether the last render() raised instead of returning
    \* The token table and ExpiredTokenRemover (wazo_auth/token.py)
    tokens,         \* the rows of the token table
    sessions,       \* the uuids of the session table
    now,            \* the clock: time.time() and time.monotonic()
    pc,             \* where the thread of _loop stands
    started,        \* the local `started` of _loop
    deadline,       \* when the timed wait of _loop ends
    tombstone,      \* self._tombstone
    stop_pc,        \* where the caller of stop() stands
    outcome,        \* how the cleanup phase of the cycle ended
    log,            \* the warnings the phases have logged
    published,      \* the events handed to the bus since the cycle began
    \* A call of ExpiredTokenRemover._publish_event on its own
    args,           \* the tokens, the sessions and the event class of the call
    \* The association tables of the store (wazo_auth/database.py)
    kind,           \* which association the calls are about
    members,        \* the number of rows of the association table for each pair
    procs,          \* the callers: the call each one is in and what it got
    \* The policy tables of the store and a call of _PolicyDAO
    policy_rows,          \* the table auth_policy: the row of each uuid
    acl_template_rows,    \* the table auth_acl_template: the templates that have a row
    acl_template_policy,  \* the table auth_policy_template: the templates of each policy
    session,              \* what the session of the call has written and not committed
    policy_call,          \* the call of create or update: its arguments and where it stands
    \* The users and groups of the policies, and a call of _PolicyDAO.get
    user_policy,  \* the table auth_user_policy: the (user, policy) pairs
    group_policy,  \* the table auth_group_policy: the (group, policy) pairs
    got, \* what the last call of get returned
    \* The user tables of the store and the calls of create_user, update_emails and delete_user
    user_rows,  \* the table auth_user: the username of each uuid
    email_rows,  \* the table auth_email
    user_email_rows,  \* the table auth_user_email
    user_joins,  \* the rows of auth_tenant_user, auth_user_group and auth_user_policy: table, user, other key
    next_email,  \* the next uuid the store gives to an email
    user_call, \* the last call: the operation and what it returned
    \* A paginated listing of the users (_UserDAO.list_)
    listed,  \* the limit and offset of the last listing, and the pages it returned
    compound, \* the last list query with its counts: the order, the direction and what came back
    \* The token of wazo-auth itself (LocalTokenManager) and the store of its tokens
    local_token,  \* self._token: the token the manager holds, or none
    renew_time,  \* self._renew_time
    clock,  \* time.time()
    next_token,  \* the next token id the token manager hands out
    local_tokens,  \* the tokens of the manager that are in the store
    local_call, \* the last call: the operation, its time and what it returned
    \* Two concurrent calls of _PolicyDAO.create, each in its own session
    workers  \* each worker's place in create, its arguments, the templates its query found and its result

aclVars == <<acls, auth_id, required_acl, allowed, called>>
renderVars == <<acl_templates, data, initialized, fetches, renders, rendered, raised>>
sweepVars ==
    <<tokens, sessions, now, pc, started, deadline, tombstone, stop_pc, outcome,
      log, published>>

publishVars == <<args>>
memberVars == <<kind, members, procs>>
policyVars == <<policy_rows, acl_template_rows, acl_template_policy, session, policy_call>>
getVars == <<user_policy, group_policy, got>>
userVars == <<user_rows, email_rows, user_email_rows, user_joins, next_email, user_call>>
listVars == <<listed, compound>>
localVars == <<local_token, renew_time, clock, next_token, local_tokens, local_call>>
workerVars == <<workers>>

vars == <<aclVars, renderVars, sweepVars, publishVars, memberVars, policyVars, getVars, userVars, listVars, localVars, workerVars>>

\* Python's None, told apart from every string (whose elements are single characters).
None == <<"None">>

----------------------------------------------------------------------------
(* Strings *)

RECURSIVE Join(_)
\* '.'.join(segs)
Join(segs) ==
    IF Len(segs) = 0 THEN <<>>
    ELSE IF Len(segs) = 1 THEN segs[1]
    ELSE segs[1] \o <<".">> \o Join(Tail(segs))

SeqsUpTo(S, n) == UNION {[1..k -> S] : k \in 1..n}

----------------------------------------------------------------------------
(* Token._transform_acl_to_regex *)

\* The characters re.escape leaves alone (alphanumerics and '_').
Alnum == {"a", "b", "m", "e", "A", "B", "_"}

Lit(c) == [k |-> "lit", c |-> c]
Esc(c) == [k |-> "esc", c |-> c]
EscDot == Esc(".")
StarRe == [k |-> "star", c |-> ""]
HashRe == [k |-> "hash", c |-> ""]
AnyRe == [k |-> "any", c |-> ""]
MeOrAuthId == [k |-> "alt", c |-> ""]

\* re.escape(acl): a backslash before every character that is not alphanumeric.
ReEscape(acl) ==
    [i \in 1..Len(acl) |-> IF acl[i] \in Alnum THEN Lit(acl[i]) ELSE Esc(acl[i])]

\* A `*` compiled like a `#`.
ReplaceStar_CrossesDots(re) ==
    [i \in 1..Len(re) |-> IF re[i] = Esc("*") THEN HashRe ELSE re[i]]

\* .replace('\\*', '[^.]*?')
ReplaceStar(re) == [i \in 1..Len(re) |-> IF re[i] = Esc("*") THEN StarRe ELSE re[i]]

\* .replace('\\#', '.*?')
ReplaceHash(re) == [i \in 1..Len(re) |-> IF re[i] = Esc("#") THEN HashRe ELSE re[i]]

\* Whether '\\.me\\.' starts at the head of re.
StartsWithDotMeDot(re) ==
    /\ Len(re) >= 4
    /\ re[1] = EscDot /\ re[2] = Lit("m") /\ re[3] = Lit("e") /\ re[4] = EscDot

RECURSIVE ReplaceMeDot_NoLeftDot(_)
\* The replacement of 'me\\.', whatever stands on its left.
ReplaceMeDot_NoLeftDot(re) ==
    IF re = <<>> THEN <<>>
    ELSE IF Len(re) >= 3 /\ re[1] = Lit("m") /\ re[2] = Lit("e") /\ re[3] = EscDot
         THEN <<MeOrAuthId, EscDot>> \o ReplaceMeDot_NoLeftDot(SubSeq(re, 4, Len(re)))
         ELSE <<Head(re)>> \o ReplaceMeDot_NoLeftDot(Tail(re))

RECURSIVE ReplaceDotMeDot(_)
\* acl_regex.replace('\\.me\\.', '\\.(me|{auth_id})\\.'): str.replace scans from the
\* left and resumes after the end of each occurrence it replaced.
ReplaceDotMeDot(re) ==
    IF re = <<>> THEN <<>>
    ELSE IF StartsWithDotMeDot(re)
         THEN <<EscDot, MeOrAuthId, EscDot>> \o ReplaceDotMeDot(SubSeq(re, 5, Len(re)))
         ELSE <<Head(re)>> \o ReplaceDotMeDot(Tail(re))

\* acl_regex.endswith('\\.me')
EndsWithDotMe(re) ==
    /\ Len(re) >= 3
    /\ re[Len(re) - 2] = EscDot /\ re[Len(re) - 1] = Lit("m") /\ re[Len(re)] = Lit("e")

\* Token._transform_acl_me_to_uuid_or_me
TransformAclMeToUuidOrMe(re) ==
    LET replaced == ReplaceDotMeDot(re)
    IN  IF EndsWithDotMe(replaced)
        THEN SubSeq(replaced, 1, Len(replaced) - 3) \o <<EscDot, MeOrAuthId>>
        ELSE replaced

\* Token._transform_acl_to_regex, without the anchors that ReMatch applies.
TransformAclToRegex(acl) ==
    TransformAclMeToUuidOrMe(ReplaceHash(ReplaceStar(ReEscape(acl))))

\* The auth_id as format() pastes it into the pattern: unescaped, so that a '.'
\* of the auth_id is the regular expression's any-character.
AuthIdRegex(aid) ==
    [i \in 1..Len(aid) |-> IF aid[i] = "." THEN AnyRe ELSE Lit(aid[i])]

RECURSIVE ReMatch(_, _, _)
\* re.match(re.compile('^' + regex + '$'), s): '$' is the end of the string or the
\* place before a newline that ends it; '.' is any character but a newline;
\* a lazy quantifier matches whatever its greedy form matches.
ReMatch(re, s, aid) ==
    IF re = <<>> THEN s = <<>> \/ s = <<"\n">>
    ELSE LET t == Head(re)
             rest == Tail(re)
         IN  CASE t.k \in {"lit", "esc"} ->
                    s # <<>> /\ Head(s) = t.c /\ ReMatch(rest, Tail(s), aid)
               [] t.k = "any" ->
                    s # <<>> /\ Head(s) # "\n" /\ ReMatch(rest, Tail(s), aid)
               [] t.k = "star" ->
                    \/ ReMatch(rest, s, aid)
                    \/ s # <<>> /\ Head(s) # "." /\ ReMatch(re, Tail(s), aid)
               [] t.k = "hash" ->
                    \/ ReMatch(rest, s, aid)
                    \/ s # <<>> /\ Head(s) # "\n" /\ ReMatch(re, Tail(s), aid)
               [] t.k = "alt" ->
                    \/ ReMatch(<<Lit("m"), Lit("e")>> \o rest, s, aid)
                    \/ ReMatch(AuthIdRegex(aid) \o rest, s, aid)

\* re.match(self._transform_acl_to_regex(acl), required_acl)
AclMatches(acl, required, aid) == ReMatch(TransformAclToRegex(acl), required, aid)

----------------------------------------------------------------------------
(* Token.matches_required_acl *)

StartsWithBang(user_acl) == Len(user_acl) > 0 /\ user_acl[1] = "!"

PositiveUserAcls(user_acls) ==
    {user_acls[i] : i \in {j \in 1..Len(user_acls) : ~StartsWithBang(user_acls[j])}}

NegativeUserAcls(user_acls) ==
    {Tail(user_acls[i]) : i \in {j \in 1..Len(user_acls) : StartsWithBang(user_acls[j])}}

\* A deny only when every negative rule matches.
NegativeDenies_All(user_acls, required, aid) ==
    /\ NegativeUserAcls(user_acls) # {}
    /\ \A negative_acl \in NegativeUserAcls(user_acls) :
        AclMatches(negative_acl, required, aid)

NegativeDenies(user_acls, required, aid) ==
    \E negative_acl \in NegativeUserAcls(user_acls) : AclMatches(negative_acl, required, aid)

PositiveAllows(user_acls, required, aid) ==
    \E positive_acl \in PositiveUserAcls(user_acls) : AclMatches(positive_acl, required, aid)

RequiredIsAbsent(required) == required = None

\* The positive rules tried before the negative ones.
MatchesRequiredAcl_PositiveFirst(user_acls, required, aid) ==
    IF RequiredIsAbsent(required) THEN TRUE
    ELSE IF PositiveAllows(user_acls, required, aid) THEN TRUE
    ELSE FALSE

MatchesRequiredAcl(user_acls, required, aid) ==
    IF RequiredIsAbsent(required) THEN TRUE
    ELSE IF NegativeDenies(user_acls, required, aid) THEN FALSE
    ELSE PositiveAllows(user_acls, required, aid)

----------------------------------------------------------------------------
(* LazyTemplateRenderer *)

\* A rendered text is a sequence of pieces, each a line break or a text without
\* line break; a line (an ACL) is the sequence of the pieces between two breaks.
NL == "\n"

\* 'user.{{ user.uuid }}.*' for one user.
UserAcl(uuid) == <<"user.", uuid, ".*">>

\* A context: the names it defines and, under `groups`, the users of each group.
EmptyContext == [names |-> {}, groups |-> <<>>]

\* The templates: `uses` holds the names the template refers to.
\*   'confd.#\n\ndird.me.#'
tLines ==
    [uses |-> {}, kind |-> "static", body |-> <<"confd.#", NL, NL, "dird.me.#">>]
\*   '{% for group in groups %}\n{% for user in group.users %}\n
\*    user.{{ user.uuid }}.*\n{% endfor %}\n{% endfor %}'
tGroups == [uses |-> {"groups"}, kind |-> "groups", body |-> <<>>]
\*   'bogus.{{ bogus }}'
tBogus == [uses |-> {"bogus"}, kind |-> "static", body |-> <<"bogus.">>]

RECURSIVE InnerLoop(_)
\* {% for user in group.users %}\nuser.{{ user.uuid }}.*\n{% endfor %}
InnerLoop(users) ==
    IF users = <<>> THEN <<>>
    ELSE <<NL>> \o UserAcl(Head(users)) \o <<NL>> \o InnerLoop(Tail(users))

RECURSIVE OuterLoop(_)
\* {% for group in groups %}\n ... \n{% endfor %}
OuterLoop(groups) ==
    IF groups = <<>> THEN <<>>
    ELSE <<NL>> \o InnerLoop(Head(groups)) \o <<NL>> \o OuterLoop(Tail(groups))

\* template.render(self._data) raises UndefinedError: with StrictUndefined, when
\* the template refers to a name the context does not define.
RaisesUndefined(tpl, ctx) == ~(tpl.uses \subseteq ctx.names)

\* template.render(self._data), when it does not raise.
TemplateRender(tpl, ctx) ==
    IF tpl.kind = "groups" THEN OuterLoop(ctx.groups) ELSE tpl.body

RECURSIVE SplitLines(_)
\* rendered_template.split('\n')
SplitLines(text) ==
    IF \A i \in 1..Len(text) : text[i] # NL THEN <<text>>
    ELSE LET n == CHOOSE i \in 1..Len(text) :
                    text[i] = NL /\ \A j \in 1..(i - 1) : text[j] # NL
         IN  <<SubSeq(text, 1, n - 1)>> \o SplitLines(SubSeq(text, n + 1, Len(text)))

\* Every line, empty or not.
AllLines(lines) == lines

\* for acl in ...: if acl: yield acl
NonEmptyLines(lines) == SelectSeq(lines, LAMBDA acl : acl # <<>>)

RECURSIVE EvaluateTemplate(_, _, _)

\* The context fetched before the first template, whether or not it is needed.
EvaluateTemplate_Eager(st, tpl, fetched) ==
    IF ~st.initialized
    THEN IF ~fetched.ok
         THEN [st EXCEPT !.initialized = TRUE, !.fetches = @ + 1, !.raised = TRUE]
         ELSE EvaluateTemplate(
                [st EXCEPT !.initialized = TRUE, !.fetches = @ + 1, !.data = fetched.ctx],
                tpl, fetched)
    ELSE IF ~RaisesUndefined(tpl, st.data)
    THEN [st EXCEPT !.acls = @ \o NonEmptyLines(SplitLines(TemplateRender(tpl, st.data)))]
    ELSE st

\* An UndefinedError after the fetch handed to the caller.
EvaluateTemplate_RaisesAgain(st, tpl, fetched) ==
    IF ~RaisesUndefined(tpl, st.data)
    THEN [st EXCEPT !.acls = @ \o NonEmptyLines(SplitLines(TemplateRender(tpl, st.data)))]
    ELSE IF st.initialized
    THEN [st EXCEPT !.raised = TRUE]
    ELSE IF ~fetched.ok
    THEN [st EXCEPT !.initialized = TRUE, !.fetches = @ + 1, !.raised = TRUE]
    ELSE EvaluateTemplate(
            [st EXCEPT !.initialized = TRUE, !.fetches = @ + 1, !.data = fetched.ctx],
            tpl, fetched)

\* LazyTemplateRenderer._evaluate_template, run to its end by render(): st holds
\* _data, _initialized, the calls of _get_data_fn, the ACLs yielded so far and
\* whether an exception left the generator; fetched is what _get_data_fn does when
\* it is called: it returns a context or it raises.
EvaluateTemplate(st, tpl, fetched) ==
    IF ~RaisesUndefined(tpl, st.data)
    THEN [st EXCEPT !.acls = @ \o NonEmptyLines(SplitLines(TemplateRender(tpl, st.data)))]
    ELSE IF st.initialized
    THEN st
    ELSE IF ~fetched.ok
    THEN [st EXCEPT !.initialized = TRUE, !.fetches = @ + 1, !.raised = TRUE]
    ELSE EvaluateTemplate(
            [st EXCEPT !.initialized = TRUE, !.fetches = @ + 1, !.data = fetched.ctx],
            tpl, fetched)

RECURSIVE RenderFrom(_, _, _, _)
\* The loop of render() from template i on; an exception ends it.
RenderFrom(st, tpls, i, fetched) ==
    IF i > Len(tpls) \/ st.raised THEN st
    ELSE RenderFrom(EvaluateTemplate(st, tpls[i], fetched), tpls, i + 1, fetched)

----------------------------------------------------------------------------
(* The token table *)

\* TokenModel.expire_t <= time.time(): a token is swept in the second it expires.
ExpiredFilter_Inclusive(token, t) == token.expire_t <= t

\* filter_ = TokenModel.expire_t < time.time()
ExpiredFilter(token, t) == token.expire_t < t

\* time.time() >= self.expire_t: a token is expired in the second it expires.
IsExpired_AtExpiry(token, t) == token.expire_t # 0 /\ t >= token.expire_t

\* Token.is_expired: self.expire_t and time.time() > self.expire_t
IsExpired(token, t) == token.expire_t # 0 /\ t > token.expire_t

\* _TokenDAO.get: the rows under the uuid, none for UnknownTokenException.
TokenGet(rows, token_uuid) == {token \in rows : token.uuid = token_uuid}

\* _TokenDAO.delete_expired_tokens: the rows that s.query(TokenModel).filter(filter_)
\* .delete() leaves.
DeleteExpiredTokens(rows, t) == {token \in rows : ~ExpiredFilter(token, t)}

\* delete_expired_tokens_and_sessions(): the expired tokens are deleted with the
\* sessions they leave without token; the deleted rows are returned.
DeleteExpiredTokensAndSessions(rows, sess, t) ==
    LET kept == DeleteExpiredTokens(rows, t)
        removed == rows \ kept
        orphaned == {s \in sess :
                        /\ \E token \in removed : token.session_uuid = s
                        /\ ~\E token \in kept : token.session_uuid = s}
    IN  [tokens |-> kept, sessions |-> sess \ orphaned,
         returned |-> [tokens |-> removed, sessions |-> orphaned]]

\* get_tokens_and_session_that_expire_soon(seconds): the tokens whose expire_t lies
\* in (now, now + seconds] and their sessions.
TokensAndSessionThatExpireSoon(rows, sess, t, seconds) ==
    LET soon == {token \in rows : t < token.expire_t /\ token.expire_t <= t + seconds}
    IN  [tokens |-> soon,
         sessions |-> {s \in sess : \E token \in soon : token.session_uuid = s}]

----------------------------------------------------------------------------
(* _PolicyDAO.create and _PolicyDAO.update *)

PolicyUuids == {"p1", "p2"}
PolicyNames == {"n1", "n2"}
Descriptions == {"d1", "d2"}
AclTemplateLists == {<<>>, <<"x">>, <<"x", "y">>}

\* The most calls of create and update in a behaviour.
MaxPolicyCalls == 3

\* No row of auth_policy under the uuid.
NoPolicy == [name |-> "none", description |-> "none"]

\* A session with nothing to commit.
NoWrites == [row |-> NoPolicy, dissociated |-> FALSE, added |-> {}]

NoPolicyCall ==
    [pc |-> "idle", op |-> "none", uuid |-> "none", acl_templates |-> <<>>, i |-> 1,
     result |-> "none", failed_in |-> "none",
     before_row |-> NoPolicy, before_templates |-> {}, calls |-> 0]

\* Empty policy tables, no call.
PolicyIdle ==
    /\ policy_rows = [u \in PolicyUuids |-> NoPolicy]
    /\ acl_template_rows = {}
    /\ acl_template_policy = [u \in PolicyUuids |-> {}]
    /\ session = NoWrites
    /\ policy_call = NoPolicyCall

\* A call begins: its arguments, and the rows of its policy as they are committed
\* at that moment.
NewCall(op, uuid, templates, next_pc) ==
    [pc |-> next_pc, op |-> op, uuid |-> uuid, acl_templates |-> templates, i |-> 1,
     result |-> "none", failed_in |-> "none",
     before_row |-> policy_rows[uuid], before_templates |-> acl_template_policy[uuid],
     calls |-> policy_call.calls + 1]

\* session.commit(): everything the session has written reaches the tables, with
\* the rows of auth_acl_template it was given to insert.
SessionCommit(inserted) ==
    /\ policy_rows' =
           IF session.row # NoPolicy
           THEN [policy_rows EXCEPT ![policy_call.uuid] = session.row]
           ELSE policy_rows
    /\ acl_template_rows' = acl_template_rows \cup inserted
    /\ acl_template_policy' =
           [acl_template_policy EXCEPT ![policy_call.uuid] =
               (IF session.dissociated THEN {} ELSE @) \cup session.added]
    /\ session' = NoWrites

\* An exception leaves the with block of new_session: session.rollback() drops what
\* the session has not committed, and the exception goes to the caller.
SessionRaises(exception, where) ==
    /\ session' = NoWrites
    /\ policy_call' = [policy_call EXCEPT !.pc = "raised", !.result = exception,
                                          !.failed_in = where]
    /\ UNCHANGED <<policy_rows, acl_template_rows, acl_template_policy>>

\* The unique constraint on the name of a policy.
DuplicateName ==
    \E u \in PolicyUuids \ {policy_call.uuid} :
        policy_rows[u] # NoPolicy /\ policy_rows[u].name = session.row.name

\* _PolicyDAO.create up to s.add(policy); the uuid is one no row has.
Create(uuid, name, description, templates) ==
    /\ policy_call.pc \in {"idle", "returned", "raised"}
    /\ policy_rows[uuid] = NoPolicy
    /\ session' = [NoWrites EXCEPT !.row = [name |-> name, description |-> description]]
    /\ policy_call' = NewCall("create", uuid, templates, "commit")
    /\ UNCHANGED <<policy_rows, acl_template_rows, acl_template_policy>>

\* _PolicyDAO.update up to the UPDATE of name and description; no row under the
\* uuid raises UnknownPolicyException.
Update(uuid, name, description, templates) ==
    /\ policy_call.pc \in {"idle", "returned", "raised"}
    /\ IF policy_rows[uuid] = NoPolicy
       THEN /\ session' = NoWrites
            /\ policy_call' =
                   [NewCall("update", uuid, templates, "raised") EXCEPT
                       !.result = "UnknownPolicyException", !.failed_in = "policy"]
       ELSE /\ session' =
                   [NoWrites EXCEPT !.row = [name |-> name, description |-> description]]
            /\ policy_call' = NewCall("update", uuid, templates, "commit")
    /\ UNCHANGED <<policy_rows, acl_template_rows, acl_template_policy>>

\* The s.commit() of create and update that follows the write of the policy row.
CommitPolicyRow ==
    /\ policy_call.pc = "commit"
    /\ IF DuplicateName
       THEN SessionRaises("DuplicatePolicyException", "policy")
       ELSE \/ /\ SessionCommit({})
               /\ policy_call' =
                      [policy_call EXCEPT !.pc =
                          IF policy_call.op = "update" THEN "dissociate" ELSE "associate"]
            \/ SessionRaises("error", "policy")

\* _dissociate_all_acl_templates: the DELETE is in the session, not committed.
DissociateAllAclTemplates ==
    /\ policy_call.pc = "dissociate"
    /\ session' = [session EXCEPT !.dissociated = TRUE]
    /\ policy_call' = [policy_call EXCEPT !.pc = "associate"]
    /\ UNCHANGED <<policy_rows, acl_template_rows, acl_template_policy>>

\* _insert_acl_template: s.add(tpl) and s.commit(), which commits all the session
\* holds, or raises.
InsertAclTemplate(template) ==
    \/ /\ SessionCommit({template})
       /\ policy_call' = [policy_call EXCEPT !.i = @ + 1]
    \/ SessionRaises("error", "insert_template")

\* One turn of the loop of _create_or_find_acl_templates: a template that has a
\* row is skipped, another one is inserted.
CreateOrFindAclTemplate ==
    /\ policy_call.pc = "associate"
    /\ policy_call.i <= Len(policy_call.acl_templates)
    /\ LET template == policy_call.acl_templates[policy_call.i]
       IN  IF template \in acl_template_rows
           THEN /\ policy_call' = [policy_call EXCEPT !.i = @ + 1]
                /\ UNCHANGED <<policy_rows, acl_template_rows, acl_template_policy,
                               session>>
           ELSE InsertAclTemplate(template)

\* _associate_acl_templates after the loop: session.add_all(template_policies).
AddAllTemplatePolicies ==
    /\ policy_call.pc = "associate"
    /\ policy_call.i > Len(policy_call.acl_templates)
    /\ session' = [session EXCEPT !.added =
                      {policy_call.acl_templates[j] :
                          j \in 1..Len(policy_call.acl_templates)}]
    /\ policy_call' = [policy_call EXCEPT !.pc = "exit"]
    /\ UNCHANGED <<policy_rows, acl_template_rows, acl_template_policy>>

\* The with block of new_session ends: session.commit(), which goes through, or
\* raises when it has rows to write.
ExitSession ==
    /\ policy_call.pc = "exit"
    /\ \/ /\ SessionCommit({})
          /\ policy_call' = [policy_call EXCEPT !.pc = "returned", !.result = "ok"]
       \/ /\ session # NoWrites
          /\ SessionRaises("error", "associate")

----------------------------------------------------------------------------
(* _PolicyDAO.create in two sessions at once *)

Workers == {"w1", "w2"}

NoWork ==
    [pc |-> "idle", uuid |-> "none", acl_templates |-> <<>>, existing |-> {}, i |-> 1,
     result |-> "none"]

\* No worker has called create.
WorkersIdle == workers = [w \in Workers |-> NoWork]

\* create up to its first s.commit(): the row of the policy is committed under a
\* uuid no other call has, or the name is taken and DuplicatePolicyException is
\* raised.
WorkerCreate(w, uuid, name, description, templates) ==
    /\ workers[w].pc = "idle"
    /\ policy_rows[uuid] = NoPolicy
    /\ \A v \in Workers : workers[v].uuid # uuid
    /\ IF \E u \in PolicyUuids : policy_rows[u] # NoPolicy /\ policy_rows[u].name = name
       THEN /\ workers' = [workers EXCEPT ![w] =
                              [NoWork EXCEPT !.pc = "raised", !.uuid = uuid,
                                             !.acl_templates = templates,
                                             !.result = "DuplicatePolicyException"]]
            /\ UNCHANGED policy_rows
       ELSE /\ policy_rows' =
                   [policy_rows EXCEPT ![uuid] = [name |-> name, description |-> description]]
            /\ workers' = [workers EXCEPT ![w] =
                              [NoWork EXCEPT !.pc = "find", !.uuid = uuid,
                                             !.acl_templates = templates]]
    /\ UNCHANGED <<acl_template_rows, acl_template_policy, session, policy_call>>

\* _create_or_find_acl_templates: the query for the rows of the templates, once,
\* before the loop.
WorkerFind(w) ==
    /\ workers[w].pc = "find"
    /\ workers' = [workers EXCEPT ![w].pc = "insert",
                                  ![w].existing =
                                      {workers[w].acl_templates[j] :
                                          j \in 1..Len(workers[w].acl_templates)}
                                          \cap acl_template_rows]
    /\ UNCHANGED policyVars

\* One turn of the loop: a template the query found is skipped; another one is
\* inserted and committed by _insert_acl_template, and the unique constraint on
\* the template raises IntegrityError when a row holds it by now.
WorkerInsert(w) ==
    /\ workers[w].pc = "insert"
    /\ workers[w].i <= Len(workers[w].acl_templates)
    /\ LET template == workers[w].acl_templates[workers[w].i]
       IN  IF template \in workers[w].existing
           THEN /\ workers' = [workers EXCEPT ![w].i = @ + 1]
                /\ UNCHANGED policyVars
           ELSE IF template \in acl_template_rows
           THEN /\ workers' = [workers EXCEPT ![w].pc = "raised",
                                              ![w].result = "IntegrityError"]
                /\ UNCHANGED policyVars
           ELSE /\ acl_template_rows' = acl_template_rows \cup {template}
                /\ workers' = [workers EXCEPT ![w].i = @ + 1,
                                              ![w].existing = @ \cup {template}]
                /\ UNCHANGED <<policy_rows, acl_template_policy, session, policy_call>>

\* After the loop: session.add_all(template_policies) and the commit that ends the
\* with block.
WorkerExit(w) ==
    /\ workers[w].pc = "insert"
    /\ workers[w].i > Len(workers[w].acl_templates)
    /\ acl_template_policy' =
           [acl_template_policy EXCEPT ![workers[w].uuid] = workers[w].existing]
    /\ workers' = [workers EXCEPT ![w].pc = "returned", ![w].result = "ok"]
    /\ UNCHANGED <<policy_rows, acl_template_rows, session, policy_call>>

----------------------------------------------------------------------------
(* _PolicyDAO.get *)

PolicyUsers == {"u1", "u2"}
PolicyGroups == {"g1", "g2"}
AclTemplates == {"x", "y"}

\* The NULL an outer join puts in the columns of the side that has no row.
Null == "NULL"

\* The order in which the store hands out the rows of a table.
RowOrder == <<"p1", "p2", "x", "y", "u1", "u2", "g1", "g2">>

\* The values of a column as a list, in the order of the rows.
Column(S) == SelectSeq(RowOrder, LAMBDA e : e \in S)

\* The side of a LEFT OUTER JOIN for one row of the left side: the rows that match,
\* or one row of NULLs when none does.
OuterJoin(matching) == IF matching = {} THEN <<Null>> ELSE Column(matching)

\* The concatenation of the lists f(col[1]), f(col[2]), ...
RECURSIVE FlatMap(_, _)
FlatMap(f(_), col) ==
    IF col = <<>> THEN <<>> ELSE f(Head(col)) \o FlatMap(f, Tail(col))

\* The user_uuid filter of _new_strict_filter: without a user_uuid every row passes,
\* with one only the rows of that user do (a NULL equals nothing).
StrictFilter(user_uuid, users) ==
    IF user_uuid = Null THEN users ELSE SelectSeq(users, LAMBDA u : u = user_uuid)

\* func.array_agg(ACLTemplate.template) over the rows of one policy in
\* Policy LEFT JOIN ACLTemplatePolicy LEFT JOIN ACLTemplate LEFT JOIN UserPolicy
\* LEFT JOIN GroupPolicy, after the filter: one entry for every row of the join.
ArrayAgg(policy_uuid, user_uuid) ==
    LET templates == OuterJoin(acl_template_policy[policy_uuid])
        users == StrictFilter(user_uuid,
                     OuterJoin({u \in PolicyUsers : <<u, policy_uuid>> \in user_policy}))
        groups == OuterJoin({g \in PolicyGroups : <<g, policy_uuid>> \in group_policy})
        PerUser(template) ==
            LET PerGroup(user) == [j \in 1..Len(groups) |-> template]
            IN  FlatMap(PerGroup, users)
    IN  FlatMap(PerUser, templates)

\* The loop of get over query.all(): a body for every policy that has a row in the
\* join, with [] for an aggregate that is [None].
PolicyGet(user_uuid) ==
    {[uuid |-> p,
      acl_templates |-> IF ArrayAgg(p, user_uuid) = <<Null>> THEN <<>>
                        ELSE ArrayAgg(p, user_uuid)] :
        p \in {q \in PolicyUuids : policy_rows[q] # NoPolicy
                                   /\ ArrayAgg(q, user_uuid) # <<>>}}

NoResult == {[uuid |-> "none", acl_templates |-> <<>>]}

\* No policy has a user or a group, get was not called.
GetIdle ==
    /\ user_policy = {}
    /\ group_policy = {}
    /\ got = NoResult

----------------------------------------------------------------------------
(* _UserDAO.create, _UserDAO.delete and update_emails *)

UserUuids == {"u1", "u2"}
Usernames == {"alice", "bob"}
Addresses == {"a", "b", "c"}
JoinTables == {"auth_tenant_user", "auth_user_group", "auth_user_policy"}

\* The tenants, the groups and the policies a row of a join table can point to.
JoinKeys(table) ==
    IF table = "auth_tenant_user" THEN {"t1", "t2"}
    ELSE IF table = "auth_user_group" THEN {"g1"} ELSE {"p1"}

\* The most email uuids the store hands out in a behaviour.
MaxEmailUuids == 3

\* No row of auth_user under the uuid.
NoUserRow == "none"

NoUserCall == [op |-> "none", result |-> <<"none">>]

\* Empty user tables, no call.
UserIdle ==
    /\ user_rows = [u \in UserUuids |-> NoUserRow]
    /\ email_rows = {}
    /\ user_email_rows = {}
    /\ user_joins = {}
    /\ next_email = 1
    /\ user_call = NoUserCall

\* The rows of auth_user_email of a user, and the rows of auth_email they point to.
UserEmailsOf(user_uuid) == {j \in user_email_rows : j.user_uuid = user_uuid}
EmailsOf(user_uuid) ==
    {e \in email_rows : \E j \in UserEmailsOf(user_uuid) : j.email_uuid = e.uuid}

\* A store whose auth_email has no unique constraint on the address.
CreateConflicts_UsernameOnly(username, email_address) ==
    IF \E u \in UserUuids : user_rows[u] = username
    THEN {<<"username", username>>} ELSE {}

\* The unique constraints an INSERT of the user and of the email violates, by the
\* column that constraint_to_column_map gives for them and the value of that
\* argument.
CreateConflicts(username, email_address) ==
    (IF \E u \in UserUuids : user_rows[u] = username
     THEN {<<"username", username>>} ELSE {})
        \cup (IF \E e \in email_rows : e.address = email_address
              THEN {<<"email_address", email_address>>} ELSE {})

\* The main of the row that joins a new user and its email.
MainOfCreatedEmail_False == FALSE
MainOfCreatedEmail == TRUE

\* The call returns or raises, and the session has rolled back what it wrote.
UserCallFails(op, exception) ==
    /\ user_call' = [op |-> op, result |-> exception]
    /\ UNCHANGED <<user_rows, email_rows, user_email_rows, user_joins, next_email>>

\* _UserDAO.create: the email, the user and the row that joins them with
\* main=True and confirmed at its default, in one session; a unique violation raises ConflictException with
\* the column of the constraint that the store reports.
UserCreate(uuid, username, email_address) ==
    /\ user_rows[uuid] = NoUserRow
    /\ IF CreateConflicts(username, email_address) # {}
       THEN \E conflict \in CreateConflicts(username, email_address) :
                UserCallFails("create",
                    <<"ConflictException", "users", conflict[1], conflict[2]>>)
       ELSE /\ next_email <= MaxEmailUuids
            /\ user_rows' = [user_rows EXCEPT ![uuid] = username]
            /\ email_rows' = email_rows \cup
                   {[uuid |-> next_email, address |-> email_address,
                     confirmed |-> FALSE]}
            /\ user_email_rows' = user_email_rows \cup
                   {[user_uuid |-> uuid, email_uuid |-> next_email,
                     main |-> MainOfCreatedEmail]}
            /\ next_email' = next_email + 1
            /\ user_call' = [op |-> "create", result |-> <<"ok">>]
            /\ UNCHANGED user_joins

\* Foreign keys without ON DELETE CASCADE: the rows that point to the user stay.
CascadeRowsLeft_NoCascade(user_uuid, email_uuids) ==
    [user_email |-> user_email_rows, joins |-> user_joins]

\* ondelete='CASCADE' of the foreign keys on auth_user.uuid and auth_email.uuid.
CascadeRowsLeft(user_uuid, email_uuids) ==
    [user_email |-> {j \in user_email_rows :
                        j.user_uuid # user_uuid /\ j.email_uuid \notin email_uuids},
     joins |-> {j \in user_joins : j[2] # user_uuid}]

\* _UserDAO.delete: the emails of the user, then the user; no row deleted from
\* auth_user raises UnknownUserException after the session has committed.
UserDelete(user_uuid) ==
    LET email_ids == {j.email_uuid : j \in UserEmailsOf(user_uuid)}
        nb_deleted == IF user_uuid \in UserUuids /\ user_rows[user_uuid] # NoUserRow
                      THEN 1 ELSE 0
    IN  /\ email_rows' = {e \in email_rows : e.uuid \notin email_ids}
        /\ user_rows' = [u \in UserUuids |->
                            IF u = user_uuid THEN NoUserRow ELSE user_rows[u]]
        /\ user_email_rows' = CascadeRowsLeft(user_uuid, email_ids).user_email
        /\ user_joins' = CascadeRowsLeft(user_uuid, email_ids).joins
        /\ user_call' = [op |-> "delete",
                         result |-> IF nb_deleted = 0 THEN <<"UnknownUserException">>
                                    ELSE <<"ok">>]
        /\ UNCHANGED next_email

\* A row of auth_tenant_user, auth_user_group or auth_user_policy for a user.
AddUserJoin(table, user_uuid, key) ==
    /\ user_rows[user_uuid] # NoUserRow
    /\ user_joins' = user_joins \cup {<<table, user_uuid, key>>}
    /\ UNCHANGED <<user_rows, email_rows, user_email_rows, next_email, user_call>>

\* The addresses of a desired list, and whether the list is accepted: no address
\* twice, and one main entry unless the list is empty.
DesiredAddresses(desired) == {desired[i].address : i \in 1..Len(desired)}
ValidDesired_AnyMain(desired) ==
    \A i, j \in 1..Len(desired) : desired[i].address = desired[j].address => i = j
ValidDesired_AlwaysOneMain(desired) ==
    /\ \A i, j \in 1..Len(desired) : desired[i].address = desired[j].address => i = j
    /\ Cardinality({i \in 1..Len(desired) : desired[i].main}) = 1
ValidDesired(desired) ==
    /\ \A i, j \in 1..Len(desired) : desired[i].address = desired[j].address => i = j
    /\ desired = <<>> \/ Cardinality({i \in 1..Len(desired) : desired[i].main}) = 1

\* The unique constraint (user_uuid, main) of auth_user_email on the rows a
\* desired list asks for: two rows of the user with the same main.
UniqueUserMain(desired) ==
    \E i, j \in 1..Len(desired) : i # j /\ desired[i].main = desired[j].main

\* The confirmed flag update_emails stores for an entry: the one of the entry for
\* an admin, for the user the stored one of an address the user has and false
\* for a new address.
StoredConfirmed_FromInput(as_admin, entry, owned) == entry.confirmed
StoredConfirmed(as_admin, entry, owned) ==
    IF as_admin THEN entry.confirmed
    ELSE IF owned = {} THEN FALSE
    ELSE \A e \in owned : e.confirmed

\* The emails of a user as update_emails returns them: the rows of auth_email
\* with the main of the row of auth_user_email that points to them.
OwnedEmails(user_uuid) ==
    {[uuid |-> e.uuid, address |-> e.address, main |-> j.main, confirmed |-> e.confirmed] :
        <<e, j>> \in {ej \in email_rows \X UserEmailsOf(user_uuid) :
                         ej[2].email_uuid = ej[1].uuid}}

\* The emails of the user after update_emails: the row of an address the user has
\* keeps its uuid, a new address gets the next uuids in the order of the list.
ReconciledEmails(owned, next, desired, as_admin) ==
    LET Owned(address) == {e \in owned : e.address = address}
        NewBefore(i) == Cardinality({k \in 1..(i - 1) : Owned(desired[k].address) = {}})
    IN  {[uuid |-> IF Owned(desired[i].address) = {} THEN next + NewBefore(i)
                   ELSE (CHOOSE e \in Owned(desired[i].address) : TRUE).uuid,
          address |-> desired[i].address,
          main |-> desired[i].main,
          confirmed |-> StoredConfirmed(as_admin, desired[i], Owned(desired[i].address))] :
            i \in 1..Len(desired)}

\* How update_emails(user_uuid, desired) ends: a list that is not accepted is a
\* BadRequest, an unknown user UnknownUserException, an address of another user a
\* conflict, and rows the constraints refuse an IntegrityError.
UpdateEmailsResult(user_uuid, desired) ==
    IF ~ValidDesired(desired) THEN <<"BadRequest">>
    ELSE IF user_uuid \notin UserUuids \/ user_rows[user_uuid] = NoUserRow
    THEN <<"UnknownUserException">>
    ELSE IF \E e \in email_rows \ EmailsOf(user_uuid) :
                e.address \in DesiredAddresses(desired)
    THEN <<"ConflictException", "users", "email_address">>
    ELSE IF UniqueUserMain(desired) THEN <<"IntegrityError">>
    ELSE <<"ok">>

\* update_emails(user_uuid, desired) by an admin or by the user, in one session:
\* the rows of the user become the reconciled ones, or nothing changes.
UpdateEmails(user_uuid, desired, as_admin) ==
    IF UpdateEmailsResult(user_uuid, desired) # <<"ok">>
    THEN UserCallFails("update_emails", UpdateEmailsResult(user_uuid, desired))
    ELSE LET reconciled ==
                 ReconciledEmails(OwnedEmails(user_uuid), next_email, desired, as_admin)
             fresh == Cardinality({r \in reconciled : r.uuid >= next_email})
         IN  /\ next_email + fresh - 1 <= MaxEmailUuids
             /\ email_rows' = (email_rows \ EmailsOf(user_uuid)) \cup
                    {[uuid |-> r.uuid, address |-> r.address, confirmed |-> r.confirmed] :
                        r \in reconciled}
             /\ user_email_rows' = (user_email_rows \ UserEmailsOf(user_uuid)) \cup
                    {[user_uuid |-> user_uuid, email_uuid |-> r.uuid, main |-> r.main] :
                        r \in reconciled}
             /\ next_email' = next_email + fresh
             /\ user_call' = [op |-> "update_emails", result |-> <<"ok">>]
             /\ UNCHANGED <<user_rows, user_joins>>

----------------------------------------------------------------------------
(* _UserDAO.list_ and QueryPaginator.update_query *)

\* The most limit and offset of a listing.
MaxLimit == 2
MaxOffset == 2

Directions == {"asc", "desc"}

\* The place of a username in the order of the store.
UsernameRank(username) == IF username = "alice" THEN 1 ELSE 2

\* The letters of a username or an address.
Letters(value) ==
    IF value = "alice" THEN {"a", "l", "i", "c", "e"}
    ELSE IF value = "bob" THEN {"b", "o"} ELSE {value}

\* SearchFilter.new_filter over User.username and Email.address: no filter for
\* None, the pattern % for the empty string, and %word% for a word of one letter.
SearchFilter(search, username, address) ==
    \/ search = Null
    \/ search = ""
    \/ search \in Letters(username) \cup Letters(address)

\* _UserDAO._new_strict_filter(username=...): no filter for None.
UserStrictFilter(username, row_username) == username = Null \/ row_username = username

\* The rows of User JOIN UserEmail JOIN Email: one for every email of every user.
EmailJoinRows ==
    {[user_uuid |-> u, username |-> user_rows[u], email |-> e] :
        <<u, e>> \in {ue \in UserUuids \X (email_rows \X user_email_rows) :
                         /\ ue[2][2].user_uuid = ue[1]
                         /\ ue[2][2].email_uuid = ue[2][1].uuid
                         /\ user_rows[ue[1]] # NoUserRow}}

\* The tenants of the rows of auth_tenant_user of a user.
TenantsOf(user_uuid) ==
    {j[3] : j \in {k \in user_joins : k[1] = "auth_tenant_user" /\ k[2] = user_uuid}}

\* The query of list_: the rows of the emails LEFT OUTER JOIN TenantUser, a row
\* for every tenant of the user and one row with NULL for a user without tenant,
\* under the strict filter and the search filter.
JoinedRows(username, search) ==
    {[user_uuid |-> r.user_uuid, username |-> r.username, email |-> r.email,
      tenant_uuid |-> t] :
        <<r, t>> \in {rt \in EmailJoinRows \X ({"t1", "t2"} \cup {Null}) :
                         /\ IF TenantsOf(rt[1].user_uuid) = {} THEN rt[2] = Null
                            ELSE rt[2] \in TenantsOf(rt[1].user_uuid)
                         /\ UserStrictFilter(username, rt[1].username)
                         /\ SearchFilter(search, rt[1].username, rt[1].email[1].address)}}

\* _UserDAO.count: Query.count() is SELECT count(*) over the rows of User JOIN
\* UserEmail JOIN Email under the filter; filtered=False takes every row.
UserCount(filtered, username, search) ==
    Cardinality({r \in EmailJoinRows :
                    filtered =>
                        /\ UserStrictFilter(username, r.username)
                        /\ SearchFilter(search, r.username, r.email[1].address)})

\* The order of the rows of one username, and of every row of a query without
\* ORDER BY: the email uuids, then the tenants.
HeapBefore(r, q) ==
    IF r.email[1].uuid # q.email[1].uuid THEN r.email[1].uuid < q.email[1].uuid
    ELSE \/ r.tenant_uuid = q.tenant_uuid
         \/ r.tenant_uuid = "t1"
         \/ q.tenant_uuid = Null

\* order_field.asc() or order_field.desc() on User.username.
RowBefore(r, q, direction) ==
    IF direction \in {"asc", "desc"} /\ r.username # q.username
    THEN IF direction = "asc"
         THEN UsernameRank(r.username) < UsernameRank(q.username)
         ELSE UsernameRank(r.username) > UsernameRank(q.username)
    ELSE HeapBefore(r, q)

\* ORDER BY: each row at the place given by the number of rows not after it.
OrderBy(rows, direction) ==
    [i \in 1..Cardinality(rows) |->
        CHOOSE r \in rows :
            Cardinality({q \in rows : RowBefore(q, r, direction)}) = i]

\* _column_map of the paginator of the users, and _valid_directions.
ColumnMap == {"username"}
ValidDirections == {"asc", "desc"}

\* The exception of QueryPaginator.update_query, Null for none: the order and the
\* direction are looked at only when both are given.
UpdateQueryRaises(order, direction) ==
    IF order # Null /\ direction # Null
    THEN IF order \notin ColumnMap THEN "InvalidSortColumnException"
         ELSE IF direction \notin ValidDirections THEN "InvalidSortDirectionException"
         ELSE Null
    ELSE Null

\* limit=None and offset=None, the defaults of update_query.
NoNumber == -1

\* QueryPaginator.update_query: ORDER BY when an order and a direction are given,
\* then LIMIT and OFFSET, when they are given, on the rows of the query.
UpdateQuery(rows, limit, offset, order, direction) ==
    LET ordered == OrderBy(rows, IF order # Null /\ direction # Null
                                 THEN direction ELSE Null)
        skip == IF offset = NoNumber THEN 0 ELSE offset
        last == IF limit # NoNumber /\ skip + limit < Len(ordered)
                THEN skip + limit ELSE Len(ordered)
    IN  SubSeq(ordered, skip + 1, last)

\* The loop of list_ over the rows: a body for every user in the order of its
\* first row, with the emails of its rows.
RECURSIVE FoldUsers(_, _)
FoldUsers(users, rows) ==
    IF rows = <<>> THEN users
    ELSE LET row == Head(rows)
             email == [address |-> row.email[1].address, main |-> row.email[2].main,
                       confirmed |-> row.email[1].confirmed]
             known == {i \in 1..Len(users) : users[i].uuid = row.user_uuid}
         IN  FoldUsers(
                 IF known = {}
                 THEN Append(users, [uuid |-> row.user_uuid, username |-> row.username,
                                     emails |-> <<email>>])
                 ELSE [i \in 1..Len(users) |->
                          IF i \in known
                          THEN [users[i] EXCEPT !.emails = Append(@, email)]
                          ELSE users[i]],
                 Tail(rows))

\* _UserDAO.list_(username, search, limit, offset, order, direction): the exception
\* of the paginator, or the users.
UserListOf(username, search, limit, offset, order, direction) ==
    IF UpdateQueryRaises(order, direction) # Null
    THEN <<UpdateQueryRaises(order, direction)>>
    ELSE <<"ok", FoldUsers(<<>>, UpdateQuery(JoinedRows(username, search),
                                           limit, offset, order, direction))>>

\* _UserDAO.list_(order='username', direction, limit, offset).
UserList(limit, offset, direction) ==
    UserListOf(Null, Null, limit, offset, "username", direction)[2]

NoCompound ==
    [order |-> Null, direction |-> Null, total |-> 0, filtered |-> 0, users |-> 0,
     items |-> <<"none">>, unpaged |-> <<>>]

NoListing == [limit |-> 0, offset |-> 0, first |-> <<>>, second |-> <<>>, both |-> <<>>]

\* No listing was asked for.
ListIdle == listed = NoListing /\ compound = NoCompound

----------------------------------------------------------------------------
(* LocalTokenManager *)

\* self._delay, self._threshold and the 'expiration' of the tokens it asks for.
Delay == 3600
Threshold == 30
LocalExpiration == 3600

\* The most tokens minted in a behaviour, and the times of its calls: some seconds
\* after the start, after a threshold and after periods of delay - threshold.
MaxLocalTokens == 3
MaxPeriods == 1
MaxSeconds == 1
Times ==
    {p * (Delay - Threshold) + h * Threshold + s :
        p \in 0..MaxPeriods, h \in 0..1, s \in 0..MaxSeconds}

\* self._token = None.
NoLocalToken == [token |-> 0, issued_t |-> 0, expire_t |-> 0]

NoLocalCall == [op |-> "none", at |-> 0, raised |-> FALSE, token |-> 0]

\* __init__ at the time 0: no token, _renew_time = time.time() - 5, and no token of
\* the manager in the store.
LocalIdle ==
    /\ local_token = NoLocalToken
    /\ renew_time = 0 - 5
    /\ clock = 0
    /\ next_token = 1
    /\ local_tokens = {}
    /\ local_call = NoLocalCall

\* _need_new_token: not self._token or time.time() > self._renew_time
NeedNewToken == local_token = NoLocalToken \/ clock > renew_time

\* token_manager.new_token(..., {'expiration': 3600, ...}) at the time of the clock.
NewLocalToken ==
    [token |-> next_token, issued_t |-> clock, expire_t |-> clock + LocalExpiration]

\* get_token: when a token is needed _renew_time is set and then new_token is
\* called, which mints a token or raises; the token of the manager is returned.
GetToken(raises) ==
    /\ IF NeedNewToken
       THEN /\ renew_time' = clock + Delay - Threshold
            /\ IF raises
               THEN /\ local_call' = [op |-> "get_token", at |-> clock, raised |-> TRUE,
                                      token |-> 0]
                    /\ UNCHANGED <<local_token, next_token, local_tokens>>
               ELSE /\ next_token <= MaxLocalTokens
                    /\ local_token' = NewLocalToken
                    /\ local_tokens' = local_tokens \cup {NewLocalToken}
                    /\ next_token' = next_token + 1
                    /\ local_call' = [op |-> "get_token", at |-> clock, raised |-> FALSE,
                                      token |-> NewLocalToken.token]
       ELSE /\ ~raises
            /\ local_call' = [op |-> "get_token", at |-> clock, raised |-> FALSE,
                              token |-> local_token.token]
            /\ UNCHANGED <<local_token, renew_time, next_token, local_tokens>>
    /\ UNCHANGED clock

\* revoke_token: remove_token of the token of the manager, when it holds one.
RevokeToken ==
    /\ local_tokens' = IF local_token # NoLocalToken
                       THEN {t \in local_tokens : t.token # local_token.token}
                       ELSE local_tokens
    /\ local_call' = [op |-> "revoke_token", at |-> clock, raised |-> FALSE,
                      token |-> local_token.token]
    /\ UNCHANGED <<local_token, renew_time, clock, next_token>>

\* Time passes.
Advance(time) ==
    /\ time > clock
    /\ clock' = time
    /\ UNCHANGED <<local_token, renew_time, next_token, local_tokens, local_call>>

----------------------------------------------------------------------------
(* The association tables: tenant-user, user-policy, group-policy *)

\* The association of groups and policies: its add_policy is taken to go the way
\* of _UserDAO.add_policy.
GroupPolicyKind == "group_policy"

Kinds == {"tenant_user", "user_policy", GroupPolicyKind}

\* The uuids of the fixtures: one row of each endpoint table, and a uuid no row has.
Lefts == {"a1"}
Rights == {"b1"}
UnknownUuid == "unknown"
Pairs == (Lefts \cup {UnknownUuid}) \X (Rights \cup {UnknownUuid})

Procs == {"p1", "p2"}

\* The exception for a missing left or right endpoint of an association.
LeftError(k) ==
    CASE k = "tenant_user" -> "UnknownTenantException"
      [] k = "user_policy" -> "UnknownUserException"
      [] OTHER -> "UnknownGroupException"
RightError(k) ==
    CASE k = "tenant_user" -> "UnknownUserException"
      [] OTHER -> "UnknownPolicyException"

\* The foreign key an INSERT of the pair violates, reported as the exception the
\* handlers make of it; which one the store reports when both are violated is the
\* store's choice.
FkeyErrors(k, pair) ==
    (IF pair[1] \notin Lefts THEN {LeftError(k)} ELSE {})
        \cup (IF pair[2] \notin Rights THEN {RightError(k)} ELSE {})

\* A table without primary key: the INSERT of a pair that has a row goes through.
UniqueViolation_None(rows, pair) == FALSE

\* The primary key (left uuid, right uuid) of the association tables.
UniqueViolation(rows, pair) == rows[pair] > 0

NoCall == [pc |-> "idle", op |-> "none", pair |-> <<UnknownUuid, UnknownUuid>>,
           nb_deleted |-> 0, result |-> "none", calls |-> 0]

\* No caller, no association.
MemberIdle ==
    /\ kind = "tenant_user"
    /\ members = [pair \in Pairs |-> 0]
    /\ procs = [p \in Procs |-> NoCall]

\* _TenantDAO.add_user, _UserDAO.add_policy, and the group's add_policy:
\* s.add(...) in a new session.
BeginAdd(p, pair) ==
    /\ procs[p].pc = "idle"
    /\ procs' = [procs EXCEPT ![p] = [pc |-> "added", op |-> "add", pair |-> pair,
                                      nb_deleted |-> 0, result |-> "none",
                                      calls |-> @.calls + 1]]
    /\ UNCHANGED <<kind, members>>

\* s.commit() of an add: the row is inserted; or IntegrityError with the unique
\* constraint code: s.rollback(), return; or with the foreign key code: raise the
\* exception of the missing endpoint.
CommitAdd(p) ==
    /\ procs[p].pc = "added"
    /\ LET pair == procs[p].pair
       IN  IF FkeyErrors(kind, pair) # {}
           THEN /\ \E e \in FkeyErrors(kind, pair) :
                    procs' = [procs EXCEPT ![p].pc = "idle", ![p].result = e]
                /\ UNCHANGED members
           ELSE IF UniqueViolation(members, pair)
           THEN /\ procs' = [procs EXCEPT ![p].pc = "idle", ![p].result = "ok"]
                /\ UNCHANGED members
           ELSE /\ procs' = [procs EXCEPT ![p].pc = "idle", ![p].result = "ok"]
                /\ members' = [members EXCEPT ![pair] = @ + 1]
    /\ UNCHANGED kind

\* The group's remove_policy when it deleted nothing: the exception of the missing
\* endpoint, or success when both are there.
GroupNothingDeleted(pair) ==
    IF FkeyErrors(GroupPolicyKind, pair) # {} THEN FkeyErrors(GroupPolicyKind, pair)
    ELSE {"ok"}

\* What a removal that deleted nothing returns, by the association.
\*   _TenantDAO.remove_user: UnknownTenantException when list_(uuid=tenant_uuid) is
\*   empty, UnknownUserException otherwise.
\*   _UserDAO.remove_policy: UnknownUserPolicyException.
NothingDeleted(k, pair) ==
    CASE k = "tenant_user" ->
            IF pair[1] \notin Lefts THEN {"UnknownTenantException"}
            ELSE {"UnknownUserException"}
      [] k = "user_policy" -> {"UnknownUserPolicyException"}
      [] OTHER -> GroupNothingDeleted(pair)

\* _TenantDAO.remove_user, _UserDAO.remove_policy, and the group's remove_policy:
\* the DELETE of the rows of the pair in a session of its own, then the result.
Remove(p, pair) ==
    /\ procs[p].pc = "idle"
    /\ LET nb == members[pair]
       IN  /\ members' = [members EXCEPT ![pair] = 0]
           /\ \E r \in (IF nb # 0 THEN {"ok"} ELSE NothingDeleted(kind, pair)) :
                procs' = [procs EXCEPT ![p] = [pc |-> "idle", op |-> "remove",
                                               pair |-> pair, nb_deleted |-> nb,
                                               result |-> r, calls |-> @.calls + 1]]
    /\ UNCHANGED kind

----------------------------------------------------------------------------
(* ExpiredTokenRemover *)

\* No call of _publish_event on its own.
NoArgs == [tokens |-> {}, sessions |-> {}, event_class |-> "None"]

\* The user_uuid of an event for which no token was found.
NoUser == "None"

\* The sessions of a result in the order the loop of _publish_event meets them.
SessionOrder == <<"s1", "s2">>

\* The event arguments of a session that no token carries.
NoTenant == "None"

\* ExpiredTokenRemover._publish_event: for each session one event, with the auth_id
\* and the metadata's tenant_uuid of the first token of the result that carries the
\* session's uuid, and with neither when nothing carries it (after the warning);
\* which token comes first is the store's choice.
PublishedEvents(res, name) ==
    LET order == SelectSeq(SessionOrder, LAMBDA s : s \in res.sessions)
        carriers(s) == {token \in res.tokens : token.session_uuid = s}
    IN  {evs \in [1..Len(order) ->
                    [name : {name}, uuid : res.sessions,
                     user_uuid : {NoUser} \cup {token.auth_id : token \in res.tokens},
                     tenant_uuid : {NoTenant} \cup
                                    {token.tenant_uuid : token \in res.tokens}]] :
            \A i \in 1..Len(order) :
                /\ evs[i].uuid = order[i]
                /\ IF carriers(order[i]) = {}
                   THEN evs[i].user_uuid = NoUser /\ evs[i].tenant_uuid = NoTenant
                   ELSE \E token \in carriers(order[i]) :
                            /\ evs[i].user_uuid = token.auth_id
                            /\ evs[i].tenant_uuid = token.tenant_uuid}

\* ExpiredTokenRemover.__init__ over an empty store, the thread started.
SweepIdle ==
    /\ tokens = {}
    /\ sessions = {}
    /\ now = 0
    /\ pc = "top"
    /\ started = 0
    /\ deadline = 0
    /\ tombstone = FALSE
    /\ stop_pc = "idle"
    /\ outcome = "none"
    /\ log = {}
    /\ published = <<>>
    /\ args = NoArgs
    /\ MemberIdle
    /\ PolicyIdle
    /\ GetIdle
    /\ UserIdle
    /\ ListIdle
    /\ LocalIdle
    /\ WorkersIdle

\* self._cleanup_interval = config['token_cleanup_interval']
CleanupInterval == 2

\* while not self._tombstone.is_set(): started = time.monotonic()
LoopTop ==
    /\ pc = "top"
    /\ IF tombstone
       THEN pc' = "exited" /\ UNCHANGED <<started, outcome, published>>
       ELSE /\ pc' = "cleanup"
            /\ started' = now
            /\ outcome' = "none"
            /\ published' = <<>>
    /\ UNCHANGED <<tokens, sessions, now, deadline, tombstone, stop_pc, log>>

\* Whether the loop over the tokens of _publish_event ends without a break for
\* one of the first n sessions: logger.warning('session without token associated')
WarnedSessions(res, n) ==
    LET order == SelectSeq(SessionOrder, LAMBDA s : s \in res.sessions)
    IN  IF \E i \in 1..n : ~\E token \in res.tokens : token.session_uuid = order[i]
        THEN {"session without token associated"}
        ELSE {}

\* ExpiredTokenRemover._publish_event, the calls of self._bus_publisher.publish
\* included: each returns, or one raises and the exception leaves _publish_event,
\* the phase and _loop.
PublishEvent(res, name, next_pc) ==
    \E evs \in PublishedEvents(res, name) :
        \/ /\ published' = published \o evs
           /\ log' = log \cup WarnedSessions(res, Len(evs))
           /\ pc' = next_pc
        \/ \E n \in 1..Len(evs) :
            /\ published' = published \o SubSeq(evs, 1, n - 1)
            /\ log' = log \cup WarnedSessions(res, n)
            /\ pc' = "crashed"

\* The delete has gone through when the commit raises, and nothing undoes it.
CleanupRaises_NoRollback ==
    /\ outcome' = "rolled_back"
    /\ log' = log \cup {"failed to remove expired tokens and sessions"}
    /\ pc' = "notice"
    /\ tokens' = DeleteExpiredTokens(tokens, now)
    /\ UNCHANGED <<sessions, published>>

\* _tokens_cleanup when the delete or the commit raises: Session.rollback(),
\* logger.warning, return.
CleanupRaises ==
    /\ outcome' = "rolled_back"
    /\ log' = log \cup {"failed to remove expired tokens and sessions"}
    /\ pc' = "notice"
    /\ UNCHANGED <<tokens, sessions, published>>

\* ExpiredTokenRemover._tokens_cleanup
TokensCleanup ==
    /\ pc = "cleanup"
    /\ \/ LET r == DeleteExpiredTokensAndSessions(tokens, sessions, now)
          IN  /\ tokens' = r.tokens
              /\ sessions' = r.sessions
              /\ outcome' = "committed"
              /\ PublishEvent(r.returned, "SessionDeleted", "notice")
       \/ CleanupRaises
    /\ UNCHANGED <<now, started, deadline, tombstone, stop_pc>>

\* A window one second wider than the interval.
NoticeWindow_Wider == CleanupInterval + 1

\* The argument of get_tokens_and_session_that_expire_soon: self._cleanup_interval
NoticeWindow == CleanupInterval

\* ExpiredTokenRemover._tokens_notice
TokensNotice ==
    /\ pc = "notice"
    /\ \/ LET r == TokensAndSessionThatExpireSoon(tokens, sessions, now, NoticeWindow)
          IN  PublishEvent(r, "SessionExpireSoon", "measure")
       \/ \* the query raised: logger.warning
          /\ pc' = "measure"
          /\ log' = log \cup {"failed to get tokens and sessions that expire soon"}
          /\ UNCHANGED published
    /\ UNCHANGED <<tokens, sessions, now, started, deadline, tombstone, stop_pc, outcome>>

\* A wait of the whole interval, whatever the cycle took.
WaitTimeout_WholeInterval(elapsed) == CleanupInterval

\* self._cleanup_interval - elapsed
WaitTimeout(elapsed) == CleanupInterval - elapsed

\* elapsed = time.monotonic() - started;
\* if elapsed < self._cleanup_interval: self._tombstone.wait(...)
Measure ==
    /\ pc = "measure"
    /\ LET elapsed == now - started
       IN  IF elapsed < CleanupInterval
           THEN pc' = "wait" /\ deadline' = now + WaitTimeout(elapsed)
           ELSE pc' = "top" /\ UNCHANGED deadline
    /\ UNCHANGED <<tokens, sessions, now, started, tombstone, stop_pc, outcome, log,
                   published>>

\* A wait that sleeps out its timeout whatever the event.
WakeCondition_SleepsOut == now >= deadline

\* self._tombstone.wait(timeout) returns: the event is set or the timeout is over.
WakeCondition == tombstone \/ now >= deadline

Wake ==
    /\ pc = "wait"
    /\ WakeCondition
    /\ pc' = "top"
    /\ UNCHANGED <<tokens, sessions, now, started, deadline, tombstone, stop_pc, outcome, log,
                   published>>

\* ExpiredTokenRemover.stop: self._tombstone.set()
Stop ==
    /\ stop_pc = "idle"
    /\ tombstone' = TRUE
    /\ stop_pc' = "joining"
    /\ UNCHANGED <<tokens, sessions, now, pc, started, deadline, outcome, log,
                   published>>

\* ExpiredTokenRemover.stop: self._thread.join() returns; self._tombstone.clear()
StopJoined ==
    /\ stop_pc = "joining"
    /\ pc \in {"exited", "crashed"}
    /\ tombstone' = FALSE
    /\ stop_pc' = "returned"
    /\ UNCHANGED <<tokens, sessions, now, pc, started, deadline, outcome, log,
                   published>>

----------------------------------------------------------------------------
(* The tokens and the required ACLs the matcher is run on *)

MaxAcls == 2
MaxSegs == 3
MaxMeSegs == 4
MaxSubSegs == 3

sA == <<"a">>
sB == <<"b">>
sMe == <<"m", "e">>
sMeme == <<"m", "e", "m", "e">>
sStar == <<"*">>
sHash == <<"#">>
sAuth == <<"A">>
sOther == <<"B">>
sAuthMe == <<"A", "m", "e">>
sMeAuth == <<"m", "e", "A">>
sNl == <<"\n">>

\* Lists of positive and negative rules.
AclRulePatterns ==
    {sHash, sStar, Join(<<sA, sHash>>), Join(<<sA, sStar>>), Join(<<sA, sB>>),
     Join(<<sA, sMe>>)}
AclRules == AclRulePatterns \cup {<<"!">> \o p : p \in AclRulePatterns}
AclLists == UNION {[1..k -> AclRules] : k \in 0..MaxAcls}
AclRequireds ==
    {None, <<>>, sA, Join(<<sA, sB>>), Join(<<sA, sA>>), Join(<<sA, sAuth>>),
     Join(<<sB, sB>>), Join(<<sA, sB, sA>>)}

\* One positive pattern of up to MaxSegs segments against a required ACL of up to
\* MaxSegs segments.
PatSegs == {sA, sMe, sStar, sHash}
ReqSegs == {sA, sMe, sAuth, sNl}
Patterns == {Join(ss) : ss \in SeqsUpTo(PatSegs, MaxSegs)}
Requireds == {Join(ss) : ss \in SeqsUpTo(ReqSegs, MaxSegs)}

\* One literal pattern of up to MaxSubSegs segments in which `me` is a segment or a
\* part of one, against the required ACLs that hold the auth_id in such places.
SubPatterns == {Join(ss) : ss \in SeqsUpTo({sA, sMe, sMeme}, MaxSubSegs)}
SubRequireds ==
    {Join(ss) : ss \in SeqsUpTo({sA, sMe, sAuth, sAuthMe, sMeAuth}, MaxSubSegs)}

\* One literal pattern of up to MaxMeSegs segments, each `a` or `me`.
MePatterns == {Join(ss) : ss \in SeqsUpTo({sA, sMe}, MaxMeSegs)}
MeRequireds == {Join(ss) : ss \in SeqsUpTo({sA, sMe, sAuth, sOther}, MaxMeSegs)}

RenderIdle ==
    /\ acl_templates = <<>>
    /\ data = EmptyContext
    /\ initialized = FALSE
    /\ fetches = 0
    /\ renders = 0
    /\ rendered = <<>>
    /\ raised = FALSE

\* Token.__init__, before any call of matches_required_acl.
NewToken(token_acls, token_auth_id) ==
    /\ acls = token_acls
    /\ auth_id = token_auth_id
    /\ required_acl = None
    /\ allowed = FALSE
    /\ called = FALSE

\* One call of token.matches_required_acl(required) on a token just built.
CallMatchesRequiredAcl(required) ==
    /\ ~called
    /\ required_acl' = required
    /\ allowed' = MatchesRequiredAcl(acls, required, auth_id)
    /\ called' = TRUE
    /\ UNCHANGED <<acls, auth_id>>

InitAcl == (\E l \in AclLists : NewToken(l, sAuth)) /\ RenderIdle /\ SweepIdle
CheckAcl == (\E r \in AclRequireds : CallMatchesRequiredAcl(r)) /\ UNCHANGED <<renderVars, sweepVars, publishVars, memberVars, policyVars, getVars, userVars, listVars, localVars, workerVars>>
NextAcl == CheckAcl
SpecAcl == InitAcl /\ [][NextAcl]_vars

InitPattern == (\E p \in Patterns : NewToken(<<p>>, sAuth)) /\ RenderIdle /\ SweepIdle
CheckPattern == (\E r \in Requireds : CallMatchesRequiredAcl(r)) /\ UNCHANGED <<renderVars, sweepVars, publishVars, memberVars, policyVars, getVars, userVars, listVars, localVars, workerVars>>
NextPattern == CheckPattern
SpecPattern == InitPattern /\ [][NextPattern]_vars

InitSub == (\E p \in SubPatterns : NewToken(<<p>>, sAuth)) /\ RenderIdle /\ SweepIdle
CheckSub == (\E r \in SubRequireds : CallMatchesRequiredAcl(r)) /\ UNCHANGED <<renderVars, sweepVars, publishVars, memberVars, policyVars, getVars, userVars, listVars, localVars, workerVars>>
NextSub == CheckSub
SpecSub == InitSub /\ [][NextSub]_vars

InitMe == (\E p \in MePatterns : NewToken(<<p>>, sAuth)) /\ RenderIdle /\ SweepIdle
CheckMe == (\E r \in MeRequireds : CallMatchesRequiredAcl(r)) /\ UNCHANGED <<renderVars, sweepVars, publishVars, memberVars, policyVars, getVars, userVars, listVars, localVars, workerVars>>
NextMe == CheckMe
SpecMe == InitMe /\ [][NextMe]_vars

----------------------------------------------------------------------------
(* Properties of the matcher *)

NegativeRuleMatches ==
    \E i \in 1..Len(acls) :
        StartsWithBang(acls[i]) /\ AclMatches(Tail(acls[i]), required_acl, auth_id)

PositiveRuleMatches ==
    \E i \in 1..Len(acls) :
        ~StartsWithBang(acls[i]) /\ AclMatches(acls[i], required_acl, auth_id)

\* C1: for a required ACL that is not None, a matching negative rule makes
\* matches_required_acl return False whatever the positive rules and the order of the
\* list; with no matching negative rule it returns True exactly when a positive rule
\* matches.
C1_NegativeRulePrecedence ==
    (called /\ required_acl # None) =>
        /\ NegativeRuleMatches => ~allowed
        /\ ~NegativeRuleMatches => (allowed <=> PositiveRuleMatches)

\* A positive rule that matches stands before a negative rule that matches, and the
\* call denied.
C1_Witness ==
    /\ called /\ required_acl # None /\ ~allowed
    /\ \E i, j \in 1..Len(acls) :
        /\ i < j
        /\ ~StartsWithBang(acls[i]) /\ AclMatches(acls[i], required_acl, auth_id)
        /\ StartsWithBang(acls[j]) /\ AclMatches(Tail(acls[j]), required_acl, auth_id)

\* The occurrences of `me` in a pattern, and those that are a whole segment with a
\* dot on the left and a dot or the end of the pattern on the right.
MeOccurrences(p) == {i \in 1..(Len(p) - 1) : p[i] = "m" /\ p[i + 1] = "e"}
WholeSegmentMe(p) ==
    {i \in MeOccurrences(p) :
        i > 1 /\ p[i - 1] = "." /\ (i + 1 = Len(p) \/ p[i + 2] = ".")}

RECURSIVE ReplaceMeAt(_, _, _, _)
\* p from position i on, with the occurrences of `me` that start at a position of I
\* replaced by w.
ReplaceMeAt(p, I, w, i) ==
    IF i > Len(p) THEN <<>>
    ELSE IF i \in I THEN w \o ReplaceMeAt(p, I, w, i + 2)
    ELSE <<p[i]>> \o ReplaceMeAt(p, I, w, i + 1)

\* C2: every whole segment `me` after a dot (between two dots, adjacent ones
\* included, or trailing) accepts the literal `me` or the auth_id, and no other id.
C2_EveryMeSegment ==
    called =>
        /\ (\E I \in SUBSET WholeSegmentMe(acls[1]) :
                required_acl = ReplaceMeAt(acls[1], I, auth_id, 1)) => allowed
        /\ (\E I \in (SUBSET WholeSegmentMe(acls[1])) \ {{}} :
                required_acl = ReplaceMeAt(acls[1], I, sOther, 1)) => ~allowed

RECURSIVE GlobMatch(_, _)
\* Whether s is p with each `*` replaced by a string without dot, each `#` by any
\* string, and every other character kept.
GlobMatch(p, s) ==
    IF p = <<>> THEN s = <<>>
    ELSE CASE Head(p) = "*" ->
                \E n \in 0..Len(s) :
                    /\ \A i \in 1..n : s[i] # "."
                    /\ GlobMatch(Tail(p), SubSeq(s, n + 1, Len(s)))
           [] Head(p) = "#" ->
                \E n \in 0..Len(s) : GlobMatch(Tail(p), SubSeq(s, n + 1, Len(s)))
           [] OTHER ->
                s # <<>> /\ Head(s) = Head(p) /\ GlobMatch(Tail(p), Tail(s))

HasNewline(s) == \E i \in 1..Len(s) : s[i] = "\n"

\* C3 as stated: a positive pattern matches a required ACL exactly when the whole
\* required ACL is the pattern with each `*` replaced by a dot-free string and each
\* `#` by any string.
C3_AsStated == called => (allowed <=> GlobMatch(acls[1], required_acl))

\* C3, amended: the same for a pattern without a whole `me` segment after a dot and
\* a required ACL without a line break.
C3_WildcardMatch ==
    (called /\ WholeSegmentMe(acls[1]) = {} /\ ~HasNewline(required_acl)) =>
        (allowed <=> GlobMatch(acls[1], required_acl))

\* A pattern with a `*` was denied a required ACL that the same pattern with `#`
\* in the place of `*` would match: the `*` did not cross a dot.
C3_Witness ==
    /\ called /\ WholeSegmentMe(acls[1]) = {} /\ ~HasNewline(required_acl)
    /\ \E i \in 1..Len(acls[1]) : acls[1][i] = "*"
    /\ ~allowed
    /\ GlobMatch([i \in 1..Len(acls[1]) |->
                    IF acls[1][i] = "*" THEN "#" ELSE acls[1][i]], required_acl)

\* C4: matches_required_acl allows when the required ACL is None and when it is the
\* empty string, whatever the list.
C4_NullOrEmptyAllows == (called /\ required_acl \in {None, <<>>}) => allowed

\* C5: if the list with one more negative rule allows, so does the list: a negative
\* rule never turns a deny into an allow.
C5_MonotoneInRevocation ==
    called =>
        \A x \in AclRulePatterns :
            MatchesRequiredAcl(Append(acls, <<"!">> \o x), required_acl, auth_id)
                => allowed

\* The list allows and one more negative rule denies.
C5_Witness ==
    /\ called /\ allowed /\ required_acl # None
    /\ \E x \in AclRulePatterns :
        ~MatchesRequiredAcl(Append(acls, <<"!">> \o x), required_acl, auth_id)

\* The required ACLs that are the pattern with the auth_id in the place of some
\* occurrences of `me`, one at least of which is not a whole segment after a dot.
IsNonSegmentReplacement(p, r, aid) ==
    \E I \in SUBSET MeOccurrences(p) :
        /\ ~(I \subseteq WholeSegmentMe(p))
        /\ r = ReplaceMeAt(p, I, aid, 1)

\* C6: a `me` that is a part of a segment, or the leading segment, is not
\* substituted: the pattern does not match the required ACL that has the auth_id in
\* its place.
C6_OnlyWholeSegments ==
    (called /\ IsNonSegmentReplacement(acls[1], required_acl, auth_id)) => ~allowed

\* The auth_id stands in the place of a `me` that is a part of a segment and does
\* not open the pattern.
C6_Witness ==
    /\ called /\ ~allowed
    /\ \E I \in SUBSET (MeOccurrences(acls[1]) \ WholeSegmentMe(acls[1])) :
        /\ I # {} /\ 1 \notin I
        /\ required_acl = ReplaceMeAt(acls[1], I, auth_id, 1)

----------------------------------------------------------------------------
(* The renderers and the contexts they are run on *)

MaxTemplates == 3
MaxGroups == 2
MaxRenders == 2

TemplateKinds == {tLines, tGroups, tBogus}
TemplateLists == UNION {[1..k -> TemplateKinds] : k \in 0..MaxTemplates}

\* The users of a group.
GroupChoices == {<<>>, <<"U1", "U2">>}
FetchedContexts ==
    {[names |-> {"user", "groups", "tenants"}, groups |-> gs] :
        gs \in UNION {[1..k -> GroupChoices] : k \in 0..MaxGroups}}

\* What a call of get_data_fn does: it returns a context or it raises.
GetDataOutcomes ==
    {[ok |-> TRUE, ctx |-> c] : c \in FetchedContexts}
        \cup {[ok |-> FALSE, ctx |-> EmptyContext]}

AclIdle == NewToken(<<>>, sAuth)

\* LazyTemplateRenderer.__init__
InitRender ==
    /\ AclIdle
    /\ SweepIdle
    /\ acl_templates \in TemplateLists
    /\ data = EmptyContext
    /\ initialized = FALSE
    /\ fetches = 0
    /\ renders = 0
    /\ rendered = <<>>
    /\ raised = FALSE

\* LazyTemplateRenderer.render
Render(fetched) ==
    /\ renders < MaxRenders
    /\ LET st == RenderFrom([data |-> data, initialized |-> initialized,
                             fetches |-> fetches, acls |-> <<>>, raised |-> FALSE],
                            acl_templates, 1, fetched)
       IN  /\ data' = st.data
           /\ initialized' = st.initialized
           /\ fetches' = st.fetches
           /\ raised' = st.raised
           /\ rendered' = IF st.raised THEN <<>> ELSE st.acls
    /\ renders' = renders + 1
    /\ UNCHANGED acl_templates

CallRender == (\E fetched \in GetDataOutcomes : Render(fetched)) /\ UNCHANGED <<aclVars, sweepVars, publishVars, memberVars, policyVars, getVars, userVars, listVars, localVars, workerVars>>
NextRender == CallRender
SpecRender == InitRender /\ [][NextRender]_vars

----------------------------------------------------------------------------
(* Properties of the renderer *)

\* C7: get_data_fn is called at most once over the render() calls of a renderer, not
\* at all when every template renders against the empty context, and the context it
\* returned is the one every later template is rendered against.
C7_FetchAtMostOnce ==
    [][/\ fetches' <= 1
       /\ fetches = 1 => (fetches' = 1 /\ data' = data)
       /\ (\A i \in 1..Len(acl_templates) :
                ~RaisesUndefined(acl_templates[i], EmptyContext)) => fetches' = 0]_vars

\* Two render() calls over two templates or more that need the context, one fetch.
C7_Witness ==
    /\ renders = 2 /\ fetches = 1 /\ ~raised /\ data # EmptyContext
    /\ Cardinality({i \in 1..Len(acl_templates) :
                        RaisesUndefined(acl_templates[i], EmptyContext)}) >= 2

RECURSIVE GroupMemberAcls(_)
\* One 'user.<uuid>.*' for each user of each group, in the order of the groups.
GroupMemberAcls(groups) ==
    IF groups = <<>> THEN <<>>
    ELSE [i \in 1..Len(Head(groups)) |-> UserAcl(Head(groups)[i])]
            \o GroupMemberAcls(Tail(groups))

\* The ACLs of a template that renders against ctx.
AclsOf(tpl, ctx) ==
    CASE tpl = tLines -> << <<"confd.#">>, <<"dird.me.#">> >>
      [] tpl = tGroups -> GroupMemberAcls(ctx.groups)
      [] OTHER -> <<>>

RECURSIVE AclsOfRenderable(_, _)
\* The ACLs of the templates of tpls that render against ctx, in the order of tpls.
AclsOfRenderable(tpls, ctx) ==
    IF tpls = <<>> THEN <<>>
    ELSE (IF RaisesUndefined(Head(tpls), ctx) THEN <<>> ELSE AclsOf(Head(tpls), ctx))
            \o AclsOfRenderable(Tail(tpls), ctx)

\* C8: a template that raises an undefined-variable error against the fetched
\* context yields no ACL and raises nothing; the templates before and after it yield
\* theirs.
C8_SilentSecondFailure ==
    (renders > 0 /\ data # EmptyContext) =>
        /\ ~raised
        /\ rendered =
            AclsOfRenderable(
                SelectSeq(acl_templates, LAMBDA tpl : ~RaisesUndefined(tpl, data)), data)

\* A template that the fetched context does not satisfy stands between two that
\* yielded ACLs, the second of them from the context.
C8_Witness ==
    /\ renders > 0 /\ data # EmptyContext /\ ~raised
    /\ Len(acl_templates) = 3
    /\ ~RaisesUndefined(acl_templates[1], data)
    /\ RaisesUndefined(acl_templates[2], data)
    /\ acl_templates[3] = tGroups
    /\ Len(rendered) >= 2

\* C9: render() returns the non-empty lines of the templates that rendered, in the
\* order of the templates and then of the lines; no ACL is the empty string; a
\* template that iterates over the groups yields one ACL for each user of each group.
C9_Concatenation ==
    (renders > 0 /\ ~raised) =>
        /\ rendered = AclsOfRenderable(acl_templates, data)
        /\ \A n \in 1..Len(rendered) : rendered[n] # <<>>
        /\ \A i \in 1..Len(acl_templates) :
            (acl_templates[i] = tGroups /\ data # EmptyContext) =>
                \A g \in 1..Len(data.groups) : \A u \in 1..Len(data.groups[g]) :
                    \E n \in 1..Len(rendered) : rendered[n] = UserAcl(data.groups[g][u])

\* A static template with an empty line and a template over two groups of users
\* were rendered.
C9_Witness ==
    /\ renders > 0 /\ ~raised
    /\ \E i, j \in 1..Len(acl_templates) :
        acl_templates[i] = tLines /\ acl_templates[j] = tGroups
    /\ Len(data.groups) = 2 /\ Len(data.groups[1]) = 2 /\ Len(data.groups[2]) >= 1
    /\ Len(rendered) >= 5

----------------------------------------------------------------------------
(* The sweeper over a store in which tokens are minted *)

MaxTime == 4
MaxExpiration == 3

\* The uuids of the tokens, in the order the manager hands them out.
TokenOrder == <<"t1", "t2">>
TokenIds == {TokenOrder[i] : i \in 1..Len(TokenOrder)}
SessionIds == {"s1", "s2"}
Users == {"u1"}

\* metadata['tenant_uuid'] of the tokens of a user.
TenantOf(user) == IF user = "u1" THEN "tn1" ELSE "tn2"

\* _TokenDAO.create, for a token the manager mints at `now` for `expiration`
\* seconds in the session s.
CreateToken(id, user, expiration, s) ==
    /\ ~\E token \in tokens : token.uuid = id
    /\ tokens' = tokens \cup {[uuid |-> id, auth_id |-> user, tenant_uuid |-> TenantOf(user),
                               expire_t |-> now + expiration, session_uuid |-> s]}
    /\ sessions' = sessions \cup {s}
    /\ UNCHANGED <<now, pc, started, deadline, tombstone, stop_pc, outcome, log,
                   published>>

\* A second passes: in a query, in the publishing, in the wait or after the thread
\* ended.  The statements of the loop itself take no time next to these, and a
\* thread whose timed wait is over runs before the next second.
Tick ==
    /\ now < MaxTime
    /\ pc \notin {"top", "measure"}
    /\ ~(pc = "wait" /\ now >= deadline)
    /\ now' = now + 1
    /\ UNCHANGED <<tokens, sessions, pc, started, deadline, tombstone, stop_pc, outcome, log,
                   published>>

InitSweep == AclIdle /\ RenderIdle /\ SweepIdle

\* The first uuid no row of the table holds.
IsFreshId(id) ==
    \E i \in 1..Len(TokenOrder) :
        /\ TokenOrder[i] = id
        /\ ~\E token \in tokens : token.uuid = id
        /\ \A j \in 1..(i - 1) : \E token \in tokens : token.uuid = TokenOrder[j]

Mint ==
    \E id \in TokenIds, user \in Users, expiration \in 1..MaxExpiration, s \in SessionIds :
        IsFreshId(id) /\ CreateToken(id, user, expiration, s)

NextSweep ==
    /\ \/ LoopTop
       \/ TokensCleanup
       \/ TokensNotice
       \/ Measure
       \/ Wake
       \/ Stop
       \/ StopJoined
       \/ Mint
       \/ Tick
    /\ UNCHANGED <<aclVars, renderVars, publishVars, memberVars, policyVars, getVars, userVars, listVars, localVars, workerVars>>

SpecSweep == InitSweep /\ [][NextSweep]_vars

----------------------------------------------------------------------------
(* The sweeper: what a cleanup removes, and when *)

\* The cleanup phase of the running cycle deletes and commits.
CleanupCommits == pc = "cleanup" /\ outcome' = "committed"

\* A committed cleanup leaves exactly the tokens whose expire_t is not before the
\* time of the cleanup.
CleanupPostcondition ==
    CleanupCommits =>
        /\ \A token \in tokens' : token.expire_t >= now
        /\ \A token \in tokens : token.expire_t >= now => token \in tokens'

\* No phase has failed and the thread is in its loop.
CyclesKeepSucceeding == log = {} /\ pc \notin {"exited", "crashed"}

\* C10 as the specification states it: a committed cleanup leaves no token with
\* expire_t before its time, and while the cycles keep succeeding no token is in
\* the store later than one cleanup_interval after its expire_t.
C10_AsStated ==
    [][/\ CleanupPostcondition
       /\ CyclesKeepSucceeding' =>
            \A token \in tokens' : now' <= token.expire_t + CleanupInterval]_vars

\* C10: a committed cleanup leaves no token with expire_t before its time and keeps
\* every other token; the wait that follows a cycle ends one cleanup_interval after
\* the cycle started, and a cycle that took the interval or more is followed by the
\* next one without a wait.  How long an expired token stays is bounded by the
\* interval only as far as the phases of the cycles take no time.
C10_ExpiredRemovedByCleanup ==
    [][/\ CleanupPostcondition
       /\ pc' = "wait" => deadline' = started' + CleanupInterval
       /\ (pc = "measure" /\ pc' # "measure" /\ now - started >= CleanupInterval) =>
            pc' = "top"]_vars

\* A committed cleanup has removed an expired token, announced the session it left
\* without token, and kept a token that is not expired.
C10_Witness ==
    /\ pc = "notice" /\ outcome = "committed"
    /\ \E i \in 1..Len(published) : published[i].name = "SessionDeleted"
    /\ \E token \in tokens : token.expire_t >= now

----------------------------------------------------------------------------
(* _publish_event on the results a store can hand to it *)

EventClasses == {"SessionDeleted", "SessionExpireSoon"}
EventUsers == {"u1", "u2"}

\* The token summaries of a result: rows with distinct uuids.
ResultTokens ==
    {ts \in SUBSET [uuid : TokenIds, auth_id : EventUsers, expire_t : {1},
                    session_uuid : SessionIds, tenant_uuid : {"tn1", "tn2"}] :
        \A x, y \in ts : x.uuid = y.uuid => x = y}

PublishArgs ==
    [tokens : ResultTokens, sessions : SUBSET SessionIds, event_class : EventClasses]

\* A thread about to run self._publish_event(tokens, sessions, event_class).
InitPublish ==
    /\ AclIdle
    /\ RenderIdle
    /\ tokens = {} /\ sessions = {} /\ now = 0
    /\ started = 0 /\ deadline = 0 /\ tombstone = FALSE /\ stop_pc = "idle"
    /\ outcome = "none" /\ log = {} /\ published = <<>>
    /\ pc = "publish"
    /\ args \in PublishArgs
    /\ MemberIdle
    /\ PolicyIdle
    /\ GetIdle
    /\ UserIdle
    /\ ListIdle
    /\ LocalIdle
    /\ WorkersIdle

CallPublishEvent ==
    /\ pc = "publish"
    /\ PublishEvent(args, args.event_class, "returned")
    /\ UNCHANGED <<tokens, sessions, now, started, deadline, tombstone, stop_pc, outcome>>
    /\ UNCHANGED <<aclVars, renderVars, publishVars, memberVars, policyVars, getVars, userVars, listVars, localVars, workerVars>>

NextPublish == CallPublishEvent
SpecPublish == InitPublish /\ [][NextPublish]_vars

\* The sessions of the call that no token of the call carries.
UnmatchedSessions ==
    {s \in args.sessions : ~\E token \in args.tokens : token.session_uuid = s}

\* C11: once _publish_event has returned, a warning is logged for a session that
\* no token of the result carries and no event is published for it.
C11_UnmatchedSessionSkipped ==
    (pc = "returned" /\ UnmatchedSessions # {}) =>
        /\ "session without token associated" \in log
        /\ \A i \in 1..Len(published) : published[i].uuid \notin UnmatchedSessions

----------------------------------------------------------------------------
(* The sweeper: failures, shutdown and events *)

\* C12: no exception of a phase ends the loop: the thread of _loop is never ended
\* by an exception, whether the store, the commit or the bus raised it.
C12_PhaseExceptionsConsumed == pc # "crashed"

\* C13: when the delete or the commit of the cleanup phase raises, the token and
\* session tables are as before the phase, nothing is published by the phase, no
\* SessionDeleted event is among the events of the cycle, and the notice phase of
\* the cycle is the next thing the loop runs.
C13_FailedCleanupRollsBack ==
    [][/\ (pc = "cleanup" /\ outcome' = "rolled_back") =>
            /\ tokens' = tokens /\ sessions' = sessions
            /\ published' = published
            /\ pc' = "notice"
       /\ outcome' = "rolled_back" =>
            \A i \in 1..Len(published') : published'[i].name # "SessionDeleted"]_vars

\* After a cleanup that raised, with an expired token still in the table, the
\* notice phase of the same cycle has run and announced a session.
C13_Witness ==
    /\ outcome = "rolled_back" /\ pc = "measure" /\ now = started
    /\ \E token \in tokens : token.expire_t < now
    /\ \E i \in 1..Len(published) : published[i].name = "SessionExpireSoon"

\* C14: when the shutdown signal is set while the cleanup phase runs, the phase
\* completes and the loop exits: the notice phase of the cycle is not the next
\* thing the thread runs.
C14_ShutdownBetweenPhases ==
    [][(pc = "cleanup" /\ tombstone /\ pc' # "cleanup") => pc' # "notice"]_vars

\* The steps of the thread of _loop, and the return of join() in stop().
ThreadStep ==
    /\ LoopTop \/ TokensCleanup \/ TokensNotice \/ Measure \/ Wake
    /\ UNCHANGED <<aclVars, renderVars, publishVars, memberVars, policyVars, getVars, userVars, listVars, localVars, workerVars>>
JoinStep == StopJoined /\ UNCHANGED <<aclVars, renderVars, publishVars, memberVars, policyVars, getVars, userVars, listVars, localVars, workerVars>>

\* A token minted into an empty table.
MintAlone == tokens = {} /\ Mint

NextFair ==
    /\ \/ LoopTop
       \/ TokensCleanup
       \/ TokensNotice
       \/ Measure
       \/ Wake
       \/ Stop
       \/ StopJoined
       \/ MintAlone
       \/ Tick
    /\ UNCHANGED <<aclVars, renderVars, publishVars, memberVars, policyVars, getVars, userVars, listVars, localVars, workerVars>>

\* The sweeper whose thread keeps running and whose phases terminate, over a table
\* of one token at a time.
FairSweep == InitSweep /\ [][NextFair]_vars /\ WF_vars(ThreadStep) /\ WF_vars(JoinStep)

\* C15: once stop() has set the signal it returns, the thread having left _loop; a
\* thread in its timed wait can leave it as soon as the signal is set, the test at
\* the top of the loop starts no cycle once the signal is set, and a cycle that took
\* cleanup_interval or more is followed by no wait.
C15_StopReturns ==
    /\ (stop_pc = "joining") ~> (stop_pc = "returned" /\ pc \in {"exited", "crashed"})
    /\ []((pc = "wait" /\ tombstone) => ENABLED ThreadStep)
    /\ [][/\ (pc = "top" /\ tombstone /\ pc' # "top") => pc' = "exited"
          /\ (pc = "measure" /\ pc' = "wait") => now - started < CleanupInterval]_vars

\* stop() has returned after the thread left a timed wait before its deadline.
C15_Witness ==
    /\ stop_pc = "returned" /\ pc = "exited"
    /\ now < deadline

\* The events a step has handed to the bus.
NewlyPublished == SubSeq(published', Len(published) + 1, Len(published'))

\* C16: a cleanup phase that commits publishes, for each session it deleted, exactly
\* one SessionDeleted event with the uuid of the session and the auth_id and
\* tenant_uuid of a deleted token that carries the session.
C16_OneEventPerDeletedSession ==
    [][(pc = "cleanup" /\ outcome' = "committed") =>
        \A s \in sessions \ sessions' :
            /\ Cardinality({i \in 1..Len(NewlyPublished) : NewlyPublished[i].uuid = s}) = 1
            /\ \A i \in 1..Len(NewlyPublished) :
                NewlyPublished[i].uuid = s =>
                    /\ NewlyPublished[i].name = "SessionDeleted"
                    /\ \E token \in tokens \ tokens' :
                        /\ token.session_uuid = s
                        /\ NewlyPublished[i].user_uuid = token.auth_id
                        /\ NewlyPublished[i].tenant_uuid = token.tenant_uuid]_vars

\* The notice query of a step fails: its warning enters the log.
NoticeQueryFails ==
    /\ "failed to get tokens and sessions that expire soon" \notin log
    /\ "failed to get tokens and sessions that expire soon" \in log'

\* C17: the notice phase publishes SessionExpireSoon events only, each for a session
\* that has a token with now < expire_t <= now + cleanup_interval, and a notice
\* phase whose query fails publishes nothing.
C17_ExpireSoonWindow ==
    [][pc = "notice" =>
        /\ \A i \in 1..Len(NewlyPublished) :
            /\ NewlyPublished[i].name = "SessionExpireSoon"
            /\ \E token \in tokens :
                /\ token.session_uuid = NewlyPublished[i].uuid
                /\ now < token.expire_t
                /\ token.expire_t <= now + CleanupInterval
        /\ NoticeQueryFails => published' = published]_vars

\* A notice phase has announced the session of a token that expires within the
\* window and not the session of a token that had expired before the cycle began
\* (the cleanup of the cycle having failed).
C17_Witness ==
    /\ pc = "measure" /\ now = started
    /\ \E i \in 1..Len(published) : published[i].name = "SessionExpireSoon"
    /\ \E token \in tokens :
        /\ token.expire_t < now
        /\ \A i \in 1..Len(published) : published[i].uuid # token.session_uuid

----------------------------------------------------------------------------
(* The validity of the tokens of the store *)

\* The ACLs of the tokens of the store, and the ACLs a caller requires.
MintedAcls == <<sA>>
ValidityRequireds == {None, sA, sB}

\* is_valid(uuid, required_acl) at the time t: the token is fetched, is not expired
\* and its ACLs match; a uuid without token is not valid.
IsValid(token_uuid, required, t) ==
    \E token \in TokenGet(tokens, token_uuid) :
        /\ ~IsExpired(token, t)
        /\ MatchesRequiredAcl(MintedAcls, required, sAuth)

\* C34: is_valid holds only for a token of the store that is not expired and whose
\* ACLs match; a token whose expire_t is before the time is not valid while it is
\* still in the store, and is_expired holds for exactly the tokens the filter of
\* the sweeper selects.
C34_ExpiredNeverValid ==
    /\ \A token_uuid \in TokenIds, required \in ValidityRequireds :
           IsValid(token_uuid, required, now) =>
               \E token \in tokens :
                   /\ token.uuid = token_uuid
                   /\ token.expire_t >= now
                   /\ MatchesRequiredAcl(MintedAcls, required, sAuth)
    /\ \A token \in tokens :
           /\ IsExpired(token, now) <=> ExpiredFilter(token, now)
           /\ token.expire_t < now =>
                  \A required \in ValidityRequireds : ~IsValid(token.uuid, required, now)
           /\ token.expire_t >= now =>
                  /\ IsValid(token.uuid, sA, now)
                  /\ ~IsValid(token.uuid, sB, now)

\* A token is in the store after its expire_t and is fetched, and another token
\* of the store is valid.
C34_Witness ==
    \E expired, live \in tokens :
        /\ expired.expire_t < now
        /\ TokenGet(tokens, expired.uuid) = {expired}
        /\ ~IsValid(expired.uuid, None, now)
        /\ IsValid(live.uuid, None, now)

----------------------------------------------------------------------------
(* Callers that add and remove associations *)

MaxCalls == 2

InitMember ==
    /\ AclIdle
    /\ RenderIdle
    /\ tokens = {} /\ sessions = {} /\ now = 0 /\ pc = "top"
    /\ started = 0 /\ deadline = 0 /\ tombstone = FALSE /\ stop_pc = "idle"
    /\ outcome = "none" /\ log = {} /\ published = <<>>
    /\ args = NoArgs
    /\ PolicyIdle
    /\ GetIdle
    /\ UserIdle
    /\ ListIdle
    /\ LocalIdle
    /\ WorkersIdle
    /\ kind \in Kinds
    /\ members = [pair \in Pairs |-> 0]
    /\ procs = [p \in Procs |-> NoCall]

CallAdd == \E p \in Procs, pair \in Pairs : procs[p].calls < MaxCalls /\ BeginAdd(p, pair)
CommitCall == \E p \in Procs : CommitAdd(p)
CallRemove == \E p \in Procs, pair \in Pairs : procs[p].calls < MaxCalls /\ Remove(p, pair)

NextMember ==
    /\ CallAdd \/ CommitCall \/ CallRemove
    /\ UNCHANGED <<aclVars, renderVars, sweepVars, publishVars, policyVars, getVars, userVars, listVars, localVars, workerVars>>

SpecMember == InitMember /\ [][NextMember]_vars

\* The pair whose endpoints both exist.
BothExist(pair) == pair[1] \in Lefts /\ pair[2] \in Rights

\* C18: an add for a pair whose endpoints exist returns success, whether or not
\* the association was there, and leaves exactly one row for the pair; the table
\* never holds more than one row for a pair.
C18_AddIdempotent ==
    /\ [](\A pair \in Pairs : members[pair] <= 1)
    /\ [][\A p \in Procs :
            (procs[p].pc = "added" /\ procs'[p].pc = "idle" /\ BothExist(procs[p].pair)) =>
                /\ procs'[p].result = "ok"
                /\ members'[procs[p].pair] = 1]_vars

\* Two callers have each added the same pair, with success, and one row is there.
C18_Witness ==
    /\ \A p \in Procs :
        /\ procs[p].pc = "idle" /\ procs[p].op = "add" /\ procs[p].result = "ok"
        /\ BothExist(procs[p].pair)
    /\ members[<<"a1", "b1">>] = 1

\* C19: a removal that deletes no row returns success when both endpoints exist,
\* and the exception of a missing endpoint otherwise.
C19_RemoveNothing ==
    \A p \in Procs :
        (procs[p].op = "remove" /\ procs[p].nb_deleted = 0) =>
            IF BothExist(procs[p].pair) THEN procs[p].result = "ok"
            ELSE procs[p].result \in FkeyErrors(kind, procs[p].pair)

----------------------------------------------------------------------------
(* The calls of _PolicyDAO.create and _PolicyDAO.update *)

InitPolicy ==
    /\ AclIdle
    /\ RenderIdle
    /\ tokens = {} /\ sessions = {} /\ now = 0 /\ pc = "top"
    /\ started = 0 /\ deadline = 0 /\ tombstone = FALSE /\ stop_pc = "idle"
    /\ outcome = "none" /\ log = {} /\ published = <<>>
    /\ args = NoArgs
    /\ MemberIdle
    /\ PolicyIdle
    /\ GetIdle
    /\ UserIdle
    /\ ListIdle
    /\ LocalIdle
    /\ WorkersIdle

CallCreate ==
    \E uuid \in PolicyUuids, name \in PolicyNames, description \in Descriptions,
       templates \in AclTemplateLists :
        policy_call.calls < MaxPolicyCalls /\ Create(uuid, name, description, templates)
CallUpdate ==
    \E uuid \in PolicyUuids, name \in PolicyNames, description \in Descriptions,
       templates \in AclTemplateLists :
        policy_call.calls < MaxPolicyCalls /\ Update(uuid, name, description, templates)

NextPolicy ==
    /\ \/ CallCreate
       \/ CallUpdate
       \/ CommitPolicyRow
       \/ DissociateAllAclTemplates
       \/ CreateOrFindAclTemplate
       \/ AddAllTemplatePolicies
       \/ ExitSession
    /\ UNCHANGED <<aclVars, renderVars, sweepVars, publishVars, memberVars, getVars, userVars, listVars, localVars, workerVars>>

SpecPolicy == InitPolicy /\ [][NextPolicy]_vars

\* The call raised while it created or associated its ACL templates.
TemplatePhaseFailed ==
    /\ policy_call.pc = "raised"
    /\ policy_call.failed_in \in {"insert_template", "associate"}

\* C20: when create or update fails while it creates or associates an ACL template,
\* the policy is as it was before the call: no row after create, the same name,
\* description and templates after update.
C20_UnitOfWork ==
    TemplatePhaseFailed =>
        /\ policy_rows[policy_call.uuid] = policy_call.before_row
        /\ acl_template_policy[policy_call.uuid] = policy_call.before_templates

----------------------------------------------------------------------------
(* The calls of _PolicyDAO.get *)

\* The policy tables after calls of create: p1 has a row, p2 may have one, each
\* with some of the templates.
InitGet ==
    /\ AclIdle
    /\ RenderIdle
    /\ tokens = {} /\ sessions = {} /\ now = 0 /\ pc = "top"
    /\ started = 0 /\ deadline = 0 /\ tombstone = FALSE /\ stop_pc = "idle"
    /\ outcome = "none" /\ log = {} /\ published = <<>>
    /\ args = NoArgs
    /\ MemberIdle
    /\ \E t1 \in SUBSET AclTemplates, t2 \in SUBSET AclTemplates, two \in BOOLEAN :
           /\ policy_rows =
                  [u \in PolicyUuids |->
                      IF u = "p1" THEN [name |-> "n1", description |-> "d1"]
                      ELSE IF two THEN [name |-> "n2", description |-> "d1"]
                      ELSE NoPolicy]
           /\ acl_template_policy =
                  [u \in PolicyUuids |->
                      IF u = "p1" THEN t1 ELSE IF two THEN t2 ELSE {}]
           /\ acl_template_rows = t1 \cup (IF two THEN t2 ELSE {})
    /\ session = NoWrites
    /\ policy_call = NoPolicyCall
    /\ GetIdle
    /\ UserIdle
    /\ ListIdle
    /\ LocalIdle
    /\ WorkersIdle

\* _UserDAO.add_policy, committed: the policy gets one more user.
AddUserPolicy ==
    /\ \E u \in PolicyUsers, p \in PolicyUuids :
           /\ policy_rows[p] # NoPolicy
           /\ <<u, p>> \notin user_policy
           /\ user_policy' = user_policy \cup {<<u, p>>}
    /\ UNCHANGED <<group_policy, got>>

\* The group's add_policy, committed: the policy gets one more group.
AddGroupPolicy ==
    /\ \E g \in PolicyGroups, p \in PolicyUuids :
           /\ policy_rows[p] # NoPolicy
           /\ <<g, p>> \notin group_policy
           /\ group_policy' = group_policy \cup {<<g, p>>}
    /\ UNCHANGED <<user_policy, got>>

CallGet ==
    /\ \E user_uuid \in PolicyUsers \cup {Null} : got' = PolicyGet(user_uuid)
    /\ UNCHANGED <<user_policy, group_policy>>

NextGet ==
    /\ \/ AddUserPolicy
       \/ AddGroupPolicy
       \/ CallGet
    /\ UNCHANGED <<aclVars, renderVars, sweepVars, publishVars, memberVars, policyVars, userVars, listVars, localVars, workerVars>>

SpecGet == InitGet /\ [][NextGet]_vars

\* C21: in what get returns, no template is twice in the acl_templates of a
\* policy, whatever the number of users and groups of the policy.
C21_TemplateAtMostOnce ==
    \A body \in got :
        \A i, j \in 1..Len(body.acl_templates) :
            /\ body.acl_templates[i] \in AclTemplates
            /\ body.acl_templates[i] = body.acl_templates[j]
            => i = j

\* C22: for a policy without template get returns the empty list, whatever the
\* number of users and groups of the policy.
C22_NoTemplateIsEmptyList ==
    \A body \in got \ NoResult :
        acl_template_policy[body.uuid] = {} => body.acl_templates = <<>>

----------------------------------------------------------------------------
(* The calls of create_user, update_emails and delete_user *)

\* An entry of a desired list.
Entry(address, main, confirmed) ==
    [address |-> address, main |-> main, confirmed |-> confirmed]

\* The desired lists of the calls: the empty list, one address, two addresses with
\* one main entry (confirmed or not, main first or last), an address twice, two
\* main entries, no main entry, and three addresses.
DesiredLists ==
    {<<>>,
     <<Entry("a", TRUE, FALSE)>>, <<Entry("a", TRUE, TRUE)>>,
     <<Entry("b", TRUE, FALSE)>>, <<Entry("a", FALSE, FALSE)>>,
     <<Entry("a", TRUE, FALSE), Entry("b", FALSE, FALSE)>>,
     <<Entry("a", TRUE, TRUE), Entry("b", FALSE, TRUE)>>,
     <<Entry("a", TRUE, FALSE), Entry("b", FALSE, TRUE)>>,
     <<Entry("b", TRUE, FALSE), Entry("a", FALSE, FALSE)>>,
     <<Entry("a", TRUE, FALSE), Entry("c", FALSE, FALSE)>>,
     <<Entry("c", FALSE, TRUE), Entry("b", TRUE, FALSE)>>,
     <<Entry("a", TRUE, FALSE), Entry("a", TRUE, FALSE)>>,
     <<Entry("a", TRUE, FALSE), Entry("a", FALSE, TRUE)>>,
     <<Entry("a", TRUE, FALSE), Entry("b", TRUE, FALSE)>>,
     <<Entry("a", FALSE, FALSE), Entry("b", FALSE, FALSE)>>,
     <<Entry("a", TRUE, FALSE), Entry("b", FALSE, FALSE), Entry("c", FALSE, FALSE)>>,
     <<Entry("a", TRUE, FALSE), Entry("b", TRUE, FALSE), Entry("c", FALSE, FALSE)>>}

InitUser ==
    /\ AclIdle
    /\ RenderIdle
    /\ tokens = {} /\ sessions = {} /\ now = 0 /\ pc = "top"
    /\ started = 0 /\ deadline = 0 /\ tombstone = FALSE /\ stop_pc = "idle"
    /\ outcome = "none" /\ log = {} /\ published = <<>>
    /\ args = NoArgs
    /\ MemberIdle
    /\ PolicyIdle
    /\ GetIdle
    /\ UserIdle
    /\ ListIdle
    /\ LocalIdle
    /\ WorkersIdle

CallCreateUser ==
    \E uuid \in UserUuids, username \in Usernames, email_address \in Addresses :
        UserCreate(uuid, username, email_address)
CallDeleteUser == \E user_uuid \in UserUuids \cup {UnknownUuid} : UserDelete(user_uuid)
CallUpdateEmails ==
    \E user_uuid \in UserUuids \cup {UnknownUuid}, desired \in DesiredLists,
       as_admin \in BOOLEAN :
        UpdateEmails(user_uuid, desired, as_admin)
CallAddUserJoin ==
    \E table \in JoinTables, user_uuid \in UserUuids :
        \E key \in JoinKeys(table) : AddUserJoin(table, user_uuid, key)

NextUser ==
    /\ \/ CallCreateUser
       \/ CallUpdateEmails
       \/ CallDeleteUser
    /\ UNCHANGED <<aclVars, renderVars, sweepVars, publishVars, memberVars, policyVars, getVars, listVars, localVars, workerVars>>

SpecUser == InitUser /\ [][NextUser]_vars

NextUserJoins ==
    /\ \/ CallCreateUser
       \/ CallAddUserJoin
       \/ CallDeleteUser
    /\ UNCHANGED <<aclVars, renderVars, sweepVars, publishVars, memberVars, policyVars, getVars, listVars, localVars, workerVars>>

\* The user tables when the calls begin: empty, or alice with two emails.
InitUserJoins ==
    /\ AclIdle
    /\ RenderIdle
    /\ tokens = {} /\ sessions = {} /\ now = 0 /\ pc = "top"
    /\ started = 0 /\ deadline = 0 /\ tombstone = FALSE /\ stop_pc = "idle"
    /\ outcome = "none" /\ log = {} /\ published = <<>>
    /\ args = NoArgs
    /\ MemberIdle
    /\ PolicyIdle
    /\ GetIdle
    /\ \/ UserIdle
       \/ /\ user_rows = [u \in UserUuids |-> IF u = "u1" THEN "alice" ELSE NoUserRow]
          /\ email_rows = {[uuid |-> 1, address |-> "a", confirmed |-> FALSE],
                           [uuid |-> 2, address |-> "b", confirmed |-> TRUE]}
          /\ user_email_rows = {[user_uuid |-> "u1", email_uuid |-> 1, main |-> TRUE],
                                [user_uuid |-> "u1", email_uuid |-> 2, main |-> FALSE]}
          /\ user_joins = {}
          /\ next_email = 3
          /\ user_call = [op |-> "update_emails", result |-> <<"ok">>]
    /\ ListIdle
    /\ LocalIdle
    /\ WorkersIdle

SpecUserJoins == InitUserJoins /\ [][NextUserJoins]_vars

\* C23: every user that has an email has exactly one row of auth_user_email with
\* main = true, after any calls of create_user, update_emails and delete_user.
C23_ExactlyOneMain ==
    \A u \in UserUuids :
        UserEmailsOf(u) # {} => Cardinality({j \in UserEmailsOf(u) : j.main}) = 1

\* A user holds two emails after an update_emails that went through.
C23_Witness ==
    /\ user_call.op = "update_emails"
    /\ user_call.result = <<"ok">>
    /\ \E u \in UserUuids : Cardinality(UserEmailsOf(u)) = 2

\* The tables of the users and their emails.
userTables == <<user_rows, email_rows, user_email_rows, user_joins, next_email>>

\* C24: create_user with a username or an address that is taken raises a conflict
\* that names the field and the value another user holds, and leaves the tables
\* as they were; no address ever belongs to two users and no username to two.
C24_ConflictLeavesNothing ==
    /\ [](/\ \A e1, e2 \in email_rows : e1.address = e2.address => e1 = e2
          /\ \A j1, j2 \in user_email_rows : j1.email_uuid = j2.email_uuid => j1 = j2
          /\ \A u1, u2 \in UserUuids :
                 user_rows[u1] = user_rows[u2] /\ user_rows[u1] # NoUserRow => u1 = u2
          /\ (user_call.op = "create" /\ user_call.result # <<"ok">>) =>
                 /\ user_call.result[1] = "ConflictException"
                 /\ \/ /\ user_call.result[3] = "username"
                       /\ \E u \in UserUuids : user_rows[u] = user_call.result[4]
                    \/ /\ user_call.result[3] = "email_address"
                       /\ \E e \in email_rows : e.address = user_call.result[4])
    /\ [][(user_call'.op = "create" /\ user_call'.result # <<"ok">>) =>
              UNCHANGED userTables]_vars

\* A create_user has failed on the address of a user who is there.
C24_Witness ==
    /\ user_call.op = "create"
    /\ Len(user_call.result) = 4
    /\ user_call.result[3] = "email_address"
    /\ \E u \in UserUuids : \E e \in EmailsOf(u) : e.address = user_call.result[4]

\* C25: delete_user of a user removes the row of the user, the emails of the user
\* and the rows that join the user to emails, tenants, groups and policies, and
\* leaves the other users as they were; delete_user of a uuid without row raises
\* UnknownUserException and changes nothing.
C25_DeleteFrame ==
    [][\A user_uuid \in UserUuids \cup {UnknownUuid} :
           UserDelete(user_uuid) =>
               IF user_uuid \in UserUuids /\ user_rows[user_uuid] # NoUserRow
               THEN /\ user_call'.result = <<"ok">>
                    /\ user_rows'[user_uuid] = NoUserRow
                    /\ email_rows' = email_rows \ EmailsOf(user_uuid)
                    /\ user_email_rows' = user_email_rows \ UserEmailsOf(user_uuid)
                    /\ user_joins' = {j \in user_joins : j[2] # user_uuid}
                    /\ \A other \in UserUuids \ {user_uuid} :
                           /\ user_rows'[other] = user_rows[other]
                           /\ OwnedEmails(other)' = OwnedEmails(other)
               ELSE /\ user_call'.result = <<"UnknownUserException">>
                    /\ UNCHANGED userTables]_vars

\* A delete_user went through for a user who had emails and joins, and another
\* user is still there with an email and a join.
C25_Witness ==
    /\ user_call = [op |-> "delete", result |-> <<"ok">>]
    /\ \E gone, other \in UserUuids :
           /\ user_rows[gone] = NoUserRow
           /\ user_rows[other] # NoUserRow
           /\ OwnedEmails(other) # {}
           /\ \E j \in user_joins : j[2] = other

\* The calls of update_emails that name a user who is there and a list that is
\* accepted, holds no address of another user and asks for no more uuids than the
\* store has left.
UpdateCalls ==
    {c \in [user_uuid : UserUuids, desired : DesiredLists, as_admin : BOOLEAN] :
        /\ user_rows[c.user_uuid] # NoUserRow
        /\ ValidDesired(c.desired)
        /\ \A e \in email_rows \ EmailsOf(c.user_uuid) :
               e.address \notin DesiredAddresses(c.desired)
        /\ next_email - 1
               + Cardinality({a \in DesiredAddresses(c.desired) :
                                 \A e \in EmailsOf(c.user_uuid) : e.address # a})
               <= MaxEmailUuids}

\* C26: update_emails makes the addresses of the user the desired ones; an address
\* the user has keeps its uuid, another one gets a new uuid, and the same call
\* once more changes nothing.
C26_DesiredSetReached ==
    \A c \in UpdateCalls :
        LET owned == OwnedEmails(c.user_uuid)
            once == ReconciledEmails(owned, next_email, c.desired, c.as_admin)
            fresh == Cardinality({r \in once : r.uuid >= next_email})
        IN  /\ UpdateEmailsResult(c.user_uuid, c.desired) = <<"ok">>
            /\ {r.address : r \in once} = DesiredAddresses(c.desired)
            /\ \A r \in once :
                   IF \E e \in owned : e.address = r.address
                   THEN \E e \in owned : e.address = r.address /\ e.uuid = r.uuid
                   ELSE r.uuid >= next_email
            /\ ReconciledEmails(once, next_email + fresh, c.desired, c.as_admin) = once

\* Whether a desired list holds an address twice, and its number of main entries.
HasDuplicate(desired) ==
    \E i, j \in 1..Len(desired) : i # j /\ desired[i].address = desired[j].address
MainCount(desired) == Cardinality({i \in 1..Len(desired) : desired[i].main})

\* C27 as stated: update_emails is a BadRequest whenever the desired list holds an
\* address twice or its number of main entries is not one.
C27_AsStated ==
    \A user_uuid \in UserUuids \cup {UnknownUuid}, desired \in DesiredLists :
        (HasDuplicate(desired) \/ MainCount(desired) # 1) =>
            UpdateEmailsResult(user_uuid, desired) = <<"BadRequest">>

\* C27: update_emails is a BadRequest when the desired list holds an address twice
\* or is not empty and has a number of main entries other than one, and a call
\* that ends so leaves the tables as they were.
C27_BadRequestForInvalidList ==
    /\ [](\A user_uuid \in UserUuids \cup {UnknownUuid}, desired \in DesiredLists :
              (HasDuplicate(desired) \/ (desired # <<>> /\ MainCount(desired) # 1)) =>
                  UpdateEmailsResult(user_uuid, desired) = <<"BadRequest">>)
    /\ [][user_call' = [op |-> "update_emails", result |-> <<"BadRequest">>] =>
              UNCHANGED userTables]_vars

\* An update_emails was refused as a BadRequest for a user who has emails.
C27_Witness ==
    /\ user_call = [op |-> "update_emails", result |-> <<"BadRequest">>]
    /\ \E u \in UserUuids : Cardinality(OwnedEmails(u)) = 2

\* C28: update_emails with the empty list goes through for a user who is there and
\* leaves the user without email; for a uuid without user it raises
\* UnknownUserException.
C28_EmptyListRemovesAll ==
    \A user_uuid \in UserUuids \cup {UnknownUuid}, as_admin \in BOOLEAN :
        IF user_uuid \in UserUuids /\ user_rows[user_uuid] # NoUserRow
        THEN /\ UpdateEmailsResult(user_uuid, <<>>) = <<"ok">>
             /\ ReconciledEmails(OwnedEmails(user_uuid), next_email, <<>>, as_admin) = {}
        ELSE UpdateEmailsResult(user_uuid, <<>>) = <<"UnknownUserException">>

\* An update_emails went through and left a user without email.
C28_Witness ==
    /\ user_call = [op |-> "update_emails", result |-> <<"ok">>]
    /\ \E u \in UserUuids : user_rows[u] # NoUserRow /\ OwnedEmails(u) = {}

\* The desired list with every confirmed set to the given value.
WithConfirmed(desired, value) ==
    [i \in 1..Len(desired) |-> [desired[i] EXCEPT !.confirmed = value]]

\* C29: for a call by the user the confirmed of the entries changes nothing: a new
\* address is stored unconfirmed and an address the user has keeps what is stored;
\* for a call by an admin the confirmed of the entry is stored.
C29_UserCannotConfirm ==
    \A c \in UpdateCalls :
        LET owned == OwnedEmails(c.user_uuid)
            Stored(as_admin, desired) ==
                ReconciledEmails(owned, next_email, desired, as_admin)
        IN  /\ Stored(FALSE, c.desired) = Stored(FALSE, WithConfirmed(c.desired, TRUE))
            /\ Stored(FALSE, c.desired) = Stored(FALSE, WithConfirmed(c.desired, FALSE))
            /\ \A r \in Stored(FALSE, c.desired) :
                   IF \E e \in owned : e.address = r.address
                   THEN \E e \in owned : e.address = r.address /\ e.confirmed = r.confirmed
                   ELSE ~r.confirmed
            /\ \A i \in 1..Len(c.desired) :
                   \E r \in Stored(TRUE, c.desired) :
                       /\ r.address = c.desired[i].address
                       /\ r.confirmed = c.desired[i].confirmed

\* A user holds a confirmed and an unconfirmed address after an update_emails.
C29_Witness ==
    /\ user_call = [op |-> "update_emails", result |-> <<"ok">>]
    /\ \E u \in UserUuids :
           \E e1, e2 \in OwnedEmails(u) : e1.confirmed /\ ~e2.confirmed

----------------------------------------------------------------------------
(* The paginated listings of the users *)

\* Two pages of limit users, and the page of twice the limit at the same offset,
\* of the same tables in the same order.
CallList ==
    /\ \E limit \in 1..MaxLimit, offset \in 0..MaxOffset, direction \in Directions :
           listed' = [limit |-> limit, offset |-> offset,
                      first |-> UserList(limit, offset, direction),
                      second |-> UserList(limit, offset + limit, direction),
                      both |-> UserList(2 * limit, offset, direction)]
    /\ UNCHANGED <<userVars, compound>>

NextList ==
    /\ \/ CallCreateUser /\ UNCHANGED listVars
       \/ CallDeleteUser /\ UNCHANGED listVars
       \/ CallList
    /\ UNCHANGED <<aclVars, renderVars, sweepVars, publishVars, memberVars, policyVars, getVars, localVars, workerVars>>

SpecList == InitUserJoins /\ [][NextList]_vars

\* C30: the page at an offset followed by the next page of the same limit is the
\* page of twice the limit at that offset, with no user twice and none lost.
C30_PaginationRoundTrip == listed.first \o listed.second = listed.both

----------------------------------------------------------------------------
(* The list queries of the users with their counts *)

Searches == {Null, "", "a", "b"}
Orders == {Null, "username", "name"}

\* A list query of the users: total is count(filtered=False), filtered is the count
\* under the filters, items is list_ under the filters and the pagination; unpaged
\* is list_ under the same filters alone and users the number of users of list_
\* without filter.
ListQuery(username, search, limit, offset, order, direction) ==
    /\ compound' =
           [order |-> order, direction |-> direction,
            total |-> UserCount(FALSE, username, search),
            filtered |-> UserCount(TRUE, username, search),
            users |-> Len(UserListOf(Null, Null, NoNumber, NoNumber, Null, Null)[2]),
            items |-> UserListOf(username, search, limit, offset, order, direction),
            unpaged |-> UserListOf(username, search, NoNumber, NoNumber, Null, Null)[2]]
    /\ UNCHANGED <<userVars, listed>>

\* The list queries by username under a filter, a search and a pagination.
CallListFiltered ==
    \E username \in {Null, "alice"}, search \in Searches,
       limit \in {NoNumber, 1}, offset \in {NoNumber, 1}, direction \in Directions :
        ListQuery(username, search, limit, offset, "username", direction)

\* The list queries with and without order, in a direction or none.
CallListOrdered ==
    \E order \in Orders, direction \in Directions \cup {Null, "up"} :
        ListQuery(Null, Null, NoNumber, NoNumber, order, direction)

\* _TenantDAO.add_user for a user and a tenant that are there.
CallAddTenantUser ==
    \E user_uuid \in UserUuids, tenant_uuid \in JoinKeys("auth_tenant_user") :
        AddUserJoin("auth_tenant_user", user_uuid, tenant_uuid)

\* The user tables when the list queries begin: alice with the emails a and b, bob
\* with the email c, and no tenant.
InitCompound ==
    /\ AclIdle
    /\ RenderIdle
    /\ tokens = {} /\ sessions = {} /\ now = 0 /\ pc = "top"
    /\ started = 0 /\ deadline = 0 /\ tombstone = FALSE /\ stop_pc = "idle"
    /\ outcome = "none" /\ log = {} /\ published = <<>>
    /\ args = NoArgs
    /\ MemberIdle
    /\ PolicyIdle
    /\ GetIdle
    /\ user_rows = [u \in UserUuids |-> IF u = "u1" THEN "alice" ELSE "bob"]
    /\ email_rows = {[uuid |-> 1, address |-> "a", confirmed |-> FALSE],
                     [uuid |-> 2, address |-> "b", confirmed |-> TRUE],
                     [uuid |-> 3, address |-> "c", confirmed |-> FALSE]}
    /\ user_email_rows = {[user_uuid |-> "u1", email_uuid |-> 1, main |-> TRUE],
                          [user_uuid |-> "u1", email_uuid |-> 2, main |-> FALSE],
                          [user_uuid |-> "u2", email_uuid |-> 3, main |-> TRUE]}
    /\ user_joins = {}
    /\ next_email = 4
    /\ user_call = NoUserCall
    /\ ListIdle
    /\ LocalIdle
    /\ WorkersIdle

NextCompound ==
    /\ \/ CallDeleteUser /\ UNCHANGED listVars
       \/ CallAddTenantUser /\ UNCHANGED listVars
       \/ CallListFiltered
       \/ CallListOrdered
    /\ UNCHANGED <<aclVars, renderVars, sweepVars, publishVars, memberVars, policyVars, getVars, localVars, workerVars>>

SpecCompound == InitCompound /\ [][NextCompound]_vars

\* C31: filtered is the number of users of the unpaginated list under the same
\* filters and total the number of users of the list without filter, whatever
\* the limit and the offset.
C31_CountsAreUsers ==
    compound.items[1] = "ok" =>
        /\ compound.filtered = Len(compound.unpaged)
        /\ compound.total = compound.users

\* C32: the list holds no user twice and the emails of a user hold no email twice,
\* whatever the tenants of the user.
C32_EachOnce ==
    \A i, j \in 1..Len(compound.unpaged) :
        /\ compound.unpaged[i].uuid = compound.unpaged[j].uuid => i = j
        /\ \A k, l \in 1..Len(compound.unpaged[i].emails) :
               compound.unpaged[i].emails[k] = compound.unpaged[i].emails[l] => k = l

\* C33: a list query in a direction other than asc and desc, by a column of the
\* map or by none, raises InvalidSortDirectionException.
C33_BadDirectionRejected ==
    (/\ compound.direction \notin ValidDirections \cup {Null}
     /\ compound.order \in ColumnMap \cup {Null}) =>
        compound.items = <<"InvalidSortDirectionException">>

----------------------------------------------------------------------------
(* The calls of the LocalTokenManager *)

InitLocal ==
    /\ AclIdle
    /\ RenderIdle
    /\ tokens = {} /\ sessions = {} /\ now = 0 /\ pc = "top"
    /\ started = 0 /\ deadline = 0 /\ tombstone = FALSE /\ stop_pc = "idle"
    /\ outcome = "none" /\ log = {} /\ published = <<>>
    /\ args = NoArgs
    /\ MemberIdle
    /\ PolicyIdle
    /\ GetIdle
    /\ UserIdle
    /\ ListIdle
    /\ LocalIdle
    /\ WorkersIdle

CallGetToken == \E raises \in BOOLEAN : GetToken(raises)
CallAdvance == \E time \in Times : Advance(time)

NextLocal ==
    /\ \/ CallGetToken
       \/ RevokeToken
       \/ CallAdvance
    /\ UNCHANGED <<aclVars, renderVars, sweepVars, publishVars, memberVars, policyVars, getVars, userVars, listVars, workerVars>>

SpecLocal == InitLocal /\ [][NextLocal]_vars

\* C35: the token get_token returns was minted at most delay - threshold seconds
\* before the call, also after calls in which new_token raised.
C35_ReturnedTokenIsFresh ==
    (local_call.op = "get_token" /\ ~local_call.raised) =>
        /\ local_call.token = local_token.token
        /\ local_call.at - local_token.issued_t <= Delay - Threshold

\* C36: the token get_token returns is in the store: it is not a token that
\* revoke_token has removed.
C36_RevokedNeverReturned ==
    (local_call.op = "get_token" /\ ~local_call.raised) =>
        \E t \in local_tokens : t.token = local_call.token

----------------------------------------------------------------------------
(* The `me` segment for auth_ids that hold a dot *)

sDotted == <<"A", ".", "B">>
sPlain == <<"A", "B">>

\* The auth_ids of the tokens, the ACLs with one `me` segment, and what a required
\* ACL holds in the place of the `me`.
AuthIds == {sAuth, sPlain, sDotted}
MeSegmentAcls == {Join(<<sA, sMe, sB>>), Join(<<sA, sMe>>)}
MeCandidates ==
    {sMe, sAuth, sPlain, sDotted, sOther, sA, <<"A", "a", "B">>, <<"A", "B", "B">>,
     <<"A", "A", "B">>, sMeAuth}
MeSegmentRequireds ==
    {Join(<<sA, S, sB>>) : S \in MeCandidates} \cup {Join(<<sA, S>>) : S \in MeCandidates}

InitAuthId ==
    /\ \E p \in MeSegmentAcls, aid \in AuthIds : NewToken(<<p>>, aid)
    /\ RenderIdle
    /\ SweepIdle

CheckAuthId ==
    /\ \E r \in MeSegmentRequireds : CallMatchesRequiredAcl(r)
    /\ UNCHANGED <<renderVars, sweepVars, publishVars, memberVars, policyVars, getVars, userVars, listVars, localVars, workerVars>>

NextAuthId == CheckAuthId

SpecAuthId == InitAuthId /\ [][NextAuthId]_vars

\* C37: the ACL a.me.b allows a.S.b, and the ACL a.me allows a.S, only when S is
\* `me` or is the auth_id of the token, character for character.
C37_MeIsLiteralAuthId ==
    (called /\ allowed) =>
        \A S \in MeCandidates :
            (\/ acls[1] = Join(<<sA, sMe, sB>>) /\ required_acl = Join(<<sA, S, sB>>)
             \/ acls[1] = Join(<<sA, sMe>>) /\ required_acl = Join(<<sA, S>>)) =>
                S \in {sMe, auth_id}

----------------------------------------------------------------------------
(* The renderer after a get_data_fn that raised *)

\* C38: a render() in which get_data_fn raised leaves the renderer not fetched, and
\* no render() returns without the ACLs of the templates that need the context
\* while no context was fetched.
C38_RaiseLeavesUnfetched ==
    /\ raised => ~initialized
    /\ (renders > 0 /\ ~raised /\ data = EmptyContext) =>
           \A i \in 1..Len(acl_templates) : ~RaisesUndefined(acl_templates[i], EmptyContext)

----------------------------------------------------------------------------
(* Users with several emails that are not the main one *)

\* C40: update_emails with one main address and two other addresses goes through
\* and leaves the user with the three addresses.
C40_TwoNonMainAccepted ==
    \A c \in UpdateCalls :
        (MainCount(c.desired) = 1 /\ Len(c.desired) = 3) =>
            /\ UpdateEmailsResult(c.user_uuid, c.desired) = <<"ok">>
            /\ Cardinality(ReconciledEmails(OwnedEmails(c.user_uuid), next_email,
                                            c.desired, c.as_admin)) = 3

----------------------------------------------------------------------------
(* Two calls of create at once *)

InitWorkers ==
    /\ AclIdle
    /\ RenderIdle
    /\ tokens = {} /\ sessions = {} /\ now = 0 /\ pc = "top"
    /\ started = 0 /\ deadline = 0 /\ tombstone = FALSE /\ stop_pc = "idle"
    /\ outcome = "none" /\ log = {} /\ published = <<>>
    /\ args = NoArgs
    /\ MemberIdle
    /\ PolicyIdle
    /\ GetIdle
    /\ UserIdle
    /\ ListIdle
    /\ LocalIdle
    /\ WorkersIdle

CallWorkerCreate ==
    \E w \in Workers, uuid \in PolicyUuids, name \in PolicyNames,
       description \in Descriptions, templates \in AclTemplateLists :
        WorkerCreate(w, uuid, name, description, templates)

NextWorkers ==
    /\ \/ CallWorkerCreate
       \/ \E w \in Workers : WorkerFind(w)
       \/ \E w \in Workers : WorkerInsert(w)
       \/ \E w \in Workers : WorkerExit(w)
    /\ UNCHANGED <<aclVars, renderVars, sweepVars, publishVars, memberVars, getVars, userVars, listVars, localVars>>

SpecWorkers == InitWorkers /\ [][NextWorkers]_vars

\* C39: no call of create ends in an IntegrityError, and a call that has ended and
\* has committed its policy has associated it with the templates it was given.
C39_ConcurrentCreateShareTemplate ==
    \A w \in Workers :
        /\ workers[w].result # "IntegrityError"
        /\ (workers[w].pc \in {"returned", "raised"}
                /\ policy_rows[workers[w].uuid] # NoPolicy) =>
               acl_template_policy[workers[w].uuid] =
                   {workers[w].acl_templates[j] : j \in 1..Len(workers[w].acl_templates)}

====
